---- MODULE Spec2Model ----
(***************************************************************************)
(* A model of the topology binding engine of                               *)
(* ansible/roles/vm_set/library/vm_topology.py.                            *)
(*                                                                         *)
(* The host is a record h: the interfaces of the root namespace, of the    *)
(* PTF container and of the named network namespace, the linux bridges,    *)
(* the OVS bridges with their ports and flow tables, and the addresses and *)
(* routes.  Every function of the engine is an operator from a host to a   *)
(* result [ok, h]: ok = FALSE is a raised exception, h the host the        *)
(* commands issued so far have left behind.  The external tools (ip,       *)
(* brctl, ovs-vsctl, ovs-ofctl) are modelled by what they do to the host   *)
(* and by when they exit non-zero.                                         *)
(*                                                                         *)
(* An interface name is a triple <<kind, a, b>>; fp_mtu is DEFAULT_MTU, so *)
(* no mtu command is issued.                                               *)
(*                                                                         *)
(* The specifications share the variables:                                 *)
(*   Spec        the module invoked command after command on one host, one *)
(*               net.* call of main() a step (worker.map item by item);    *)
(*   SpecTopo    check_topo on the topologies a file can hold;             *)
(*   SpecPool    one VMTopologyWorker.map over bind_ovs_ports tasks, with  *)
(*               the threads of the pool and the log handlers.  A task's   *)
(*               commands are two steps and each step leaves one record    *)
(*               for the records of its commands; all records are DEBUG    *)
(*               and a task emits fewer than THREAD_LOG_HANDLER_CAPACITY   *)
(*               of them, so a MemoryHandler flushes only when told to;    *)
(*   SpecRetopo  Spec with the topology a parameter of every invocation;   *)
(*   SpecCmd     one call of VMTopology.cmd, attempt by attempt;           *)
(*   SpecUnbind  unbind on the topologies of Spec and those with VM_LINKs  *)
(*               and OVS_LINKs;                                            *)
(*   SpecBatch   one pass of safe_subprocess_manager;                      *)
(*   SpecOptions Spec on the topologies with the optional keys: a virtual  *)
(*               chassis, device interconnect links, VM and OVS links;     *)
(*   SpecNames   adaptive_name on templates, contexts and indexes;         *)
(*   SpecTemp    adaptive_temporary_interface on contexts and names;       *)
(*   SpecParse   check_topo's test of a port reference and                 *)
(*               parse_vm_vlan_port on the reference;                      *)
(*   SpecWorker  a VMTopologyWorker over its life: map calls and shutdown; *)
(*   SpecShare   SpecPool on the topologies check_topo accepts;            *)
(*   SpecIntf    intf_exists and intf_not_exists on a host at rest;        *)
(*   SpecSlots   Spec on active-active topologies at the routing-table cap;*)
(*   SpecVeth    the veth pairs made and removed, command by command;      *)
(*   SpecRules   the flow rule commands of a connected bind_ovs_ports,     *)
(*               one command a rule and in batch mode, as text;            *)
(*   SpecLag     the port lookup of bind_ovs_ports on ports OVS lists late;*)
(*   SpecAddr    add_ip_to_docker_if and add_ip_to_netns_if run twice;     *)
(*   SpecRegistry setup_netns_source_routing over the text of rt_tables;   *)
(*   SpecGone    the removal operations without a running PTF container.   *)
(***************************************************************************)
EXTENDS Integers, Sequences, FiniteSets, TLC

VARIABLES
    topo,       \* module.params['topo'] with len(duts_name) > 1: the topology of the set
    extra,      \* module.params['ptf_extra_mgmt_ip_addr']
    host,       \* the live state of the host
    cmd,        \* module.params['cmd'] of the last invocation, "none" before the first
    pc,         \* the number of net.* calls of main() this invocation has made
    item,       \* inside bind_fp_ports: the number of items worker.map has done
    last,       \* the arguments of the bind_ovs_ports call that has just returned
    result,     \* "none", "running", "ok" (exit_json), "failed" (fail_json), "stopped"
    rejected,   \* the invocation failed in its validation (check_topo, net.init)
    runs,       \* the number of invocations so far
    host0,      \* the host when the invocation started
    prev,       \* [cmd, result, host0] of the invocation before this one
    ctopo,      \* the topology given to check_topo
    cres,       \* what check_topo made of ctopo
    wmode,      \* how worker.map runs: "sequential", "ThreadPool", "ThreadPoolExecutor"
    wtasks,     \* the iterable given to worker.map: the arguments of bind_ovs_ports
    wstate,     \* for every item: how far its task is, and on which thread
    wraised,    \* "idle", then "running" inside map, then "returned" or "raised"
    whost,      \* the host the tasks of the pool work on
    whost0,     \* that host when map was called
    wlog,       \* the records the target handler has written, in order
    wbuf,       \* for every thread of the pool: the buffer of its MemoryHandler
    wattached,  \* the ThreadBufferHandler is the handler of the root logger
    wpool,      \* the pool of the worker: up or shut down, the map and shutdown calls made
    sh,         \* one call of VMTopology.cmd: its arguments, its attempts, its outcome
    bt,         \* one batch-mode pass: its tasks, its background processes, its outcome
    fn          \* the calls of a helper function made so far: arguments and value

ovars == <<topo, extra, host, cmd, pc, item, last, result, rejected, runs, host0, prev>>
tvars == <<ctopo, cres>>
wvars == <<wmode, wtasks, wstate, wraised, whost, whost0, wlog, wbuf, wattached, wpool>>
avars == <<sh, bt, fn>>
vars == <<ovars, tvars, wvars, avars>>

None == -1
\* self.pid is None: the PTF container is not running
NoPid == "none"

(***************************************************************************)
(* Names (templates of lines 142-170).  vm_set_name is fixed.              *)
(***************************************************************************)
NoName == <<"", 0, 0>>
MGMT_PORT_NAME == <<"mgmt", 0, 0>>
BP_PORT_NAME == <<"backplane", 0, 0>>
MgmtBridge == <<"br-mgmt", 0, 0>>
OVS_FP_BRIDGE(vm, idx) == <<"br", vm, idx>>
OVS_FP_TAP(vm, idx) == <<"tap", vm, idx>>
OVS_BP_TAP(vm) == <<"back", vm, 0>>
INJECTED_INTERFACES(i) == <<"inje", i, 0>>
MUXY_INTERFACES(i) == <<"muxy", i, 0>>
ACTIVE_ACTIVE_INTERFACES(i) == <<"iaa", i, 0>>
SERVER_NIC_INTERFACE(i) == <<"nic", i, 0>>
MUXY_BRIDGE(i) == <<"mbr", i, 0>>
ACTIVE_ACTIVE_BRIDGE(i) == <<"baa", i, 0>>
NETNS_IFACE(i) == <<"eth", i, 0>>
PTF_FP_IFACE(i) == <<"eth", i, 0>>
PTF_MGMT_IF == <<"ptf-m", 0, 0>>
NETNS_MGMT_IF == <<"ns-m", 0, 0>>
PTF_BP_IF == <<"ptf-b", 0, 0>>
ROOT_BACK_BR == <<"br-b", 0, 0>>
DutPort(d, v) == <<"dutport", d, v>>
DutMgmtPort(d) == <<"dutmgmt", d, 0>>

\* a temporary name that is the final name itself
adaptive_temporary_interface_final(int_if) == int_if

\* adaptive_temporary_interface: md5(ptf name)[0:6] + interface name + "_t"
adaptive_temporary_interface(int_if) == <<"t_" \o int_if[1], int_if[2], int_if[3]>>

\* int_if + _generate_fingerprint(ext_if, MAX_INTF_LEN - len(int_if))
FingerprintName(int_if, ext_if) == <<int_if[1] \o "#" \o ext_if[1], int_if[2], ext_if[2]>>

(***************************************************************************)
(* Results and sequencing of commands: an exception ends the operation.    *)
(***************************************************************************)
Ok(h) == [ok |-> TRUE, h |-> h]
Fail(h) == [ok |-> FALSE, h |-> h]
Then(r, Op(_)) == IF r.ok THEN Op(r.h) ELSE r
When(c, r, Op(_)) == IF r.ok /\ c THEN Op(r.h) ELSE r

\* for x in seq: Op(x), stopping at the first exception
ForEach(seq, r, Op(_, _)) ==
    LET F[i \in 0..Len(seq)] ==
            IF i = 0 THEN r
            ELSE LET p == F[i - 1] IN IF p.ok THEN Op(seq[i], p.h) ELSE p
    IN F[Len(seq)]

Range(f) == {f[x] : x \in DOMAIN f}
Min(S) == CHOOSE n \in S : \A m \in S : n <= m

(***************************************************************************)
(* The kernel: interfaces.  An interface is [name, at, pair, up, kind];    *)
(* at is "root", "ctn" (the PTF container) or "ns" (the named namespace);  *)
(* the two ends of a veth pair carry the same pair (the name the external  *)
(* end was created with).                                                  *)
(***************************************************************************)
Intf(name, at, pair, kind) ==
    [name |-> name, at |-> at, pair |-> pair, up |-> FALSE, kind |-> kind]

Has(h, name, at) == \E i \in h.ifs : i.name = name /\ i.at = at
The(h, name, at) == CHOOSE i \in h.ifs : i.name = name /\ i.at = at

\* an interface leaves every linux bridge when it is deleted or moved
Unenslave(lbr, names) == [b \in DOMAIN lbr |-> lbr[b] \ names]
Unaddr(S, names, at) == {a \in S : ~(a.at = at /\ a.name \in names)}

\* ip link add <ext> type veth peer name <tmp>
ip_link_add_veth(h, ext, tmp) ==
    IF Has(h, ext, "root") \/ Has(h, tmp, "root") \/ ext = tmp THEN Fail(h)
    ELSE Ok([h EXCEPT !.ifs = @ \cup {Intf(ext, "root", ext, "veth"),
                                      Intf(tmp, "root", ext, "veth")}])

\* ip link del[ete] dev <name> in the root namespace: a veth goes with its peer
ip_link_del(h, name) ==
    IF ~Has(h, name, "root") THEN Fail(h)
    ELSE LET i == The(h, name, "root")
             gone == IF i.kind = "veth" THEN {j \in h.ifs : j.kind = "veth" /\ j.pair = i.pair}
                     ELSE {i}
             rootnames == {j.name : j \in {g \in gone : g.at = "root"}}
         IN Ok([h EXCEPT !.ifs = @ \ gone,
                         !.lbr = Unenslave(@, rootnames),
                         !.addrs = {a \in @ : ~\E g \in gone : g.at = a.at /\ g.name = a.name},
                         !.routes = {a \in @ : ~\E g \in gone : g.at = a.at /\ g.name = a.name}])

\* ip link set dev <name> netns <to>, run in namespace <from>
ip_link_set_netns(h, name, from, to) ==
    IF ~Has(h, name, from) \/ Has(h, name, to) \/ (to = "ns" /\ ~h.netns)
       \/ (from = "ns" /\ ~h.netns) \/ to = NoPid \/ from = NoPid
    THEN Fail(h)
    ELSE LET i == The(h, name, from)
         IN Ok([h EXCEPT !.ifs = (@ \ {i}) \cup {[i EXCEPT !.at = to, !.up = FALSE]},
                         !.lbr = IF from = "root" THEN Unenslave(@, {name}) ELSE @,
                         !.addrs = Unaddr(@, {name}, from),
                         !.routes = Unaddr(@, {name}, from)])

\* ip link set dev <old> name <new>, run in namespace <at>
ip_link_set_name(h, at, old, new) ==
    IF at = NoPid \/ ~Has(h, old, at) \/ Has(h, new, at) THEN Fail(h)
    ELSE LET i == The(h, old, at)
         IN Ok([h EXCEPT !.ifs = (@ \ {i}) \cup {[i EXCEPT !.name = new]}])

SetUp(h, name, at, state) ==
    [h EXCEPT !.ifs = {IF i.name = name /\ i.at = at THEN [i EXCEPT !.up = state] ELSE i
                       : i \in @}]
\* _intf_cmd (1596-1604) picks the namespace `ifconfig -a <intf>` runs in
_intf_cmd(pid, netns) ==
    IF pid # NoPid THEN "ctn" ELSE IF netns THEN "ns" ELSE "root"

\* `ifconfig -a <intf>` exits 0
IfconfigOk(h, intf, pid, netns) ==
    LET at == _intf_cmd(pid, netns)
    IN (at = "ns" => h.netns) /\ Has(h, intf, at)

intf_exists(h, intf, pid, netns) == IfconfigOk(h, intf, pid, netns)
intf_not_exists(h, intf, pid, netns) == ~IfconfigOk(h, intf, pid, netns)

\* iface_updown (1716-1723): only the root form ends in `|| true`
iface_updown(h, iface_name, state, pid, netns) ==
    IF pid # NoPid THEN
        IF Has(h, iface_name, "ctn") THEN Ok(SetUp(h, iface_name, "ctn", state)) ELSE Fail(h)
    ELSE IF netns THEN
        IF h.netns /\ Has(h, iface_name, "ns") THEN Ok(SetUp(h, iface_name, "ns", state))
        ELSE Fail(h)
    ELSE Ok(SetUp(h, iface_name, "root", state))

iface_up(h, iface_name, pid, netns) == iface_updown(h, iface_name, TRUE, pid, netns)
iface_down(h, iface_name, pid, netns) == iface_updown(h, iface_name, FALSE, pid, netns)

(***************************************************************************)
(* Linux bridges (brctl).  h.lbr maps each bridge to its interfaces.       *)
(***************************************************************************)
brctl_addbr(h, br) ==
    IF Has(h, br, "root") THEN Fail(h)
    ELSE Ok([h EXCEPT !.ifs = @ \cup {Intf(br, "root", NoName, "bridge")},
                      !.lbr = (br :> {}) @@ @])

\* brctl delbr: refused while the bridge is up; the callers append `|| true`
brctl_delbr_or_true(h, br) ==
    IF br \in DOMAIN h.lbr /\ ~The(h, br, "root").up
    THEN Ok([h EXCEPT !.ifs = @ \ {The(h, br, "root")},
                      !.lbr = [b \in DOMAIN @ \ {br} |-> @[b]]])
    ELSE Ok(h)

if_to_br(h) == {p \in UNION Range(h.lbr) : TRUE}
BridgeOf(h, p) == CHOOSE b \in DOMAIN h.lbr : p \in h.lbr[b]

brctl_addif(h, br, p) ==
    IF br \in DOMAIN h.lbr /\ Has(h, p, "root") /\ p \notin if_to_br(h)
       /\ ~\E b \in DOMAIN h.ovs : p \in DOMAIN h.ovs[b].ports
    THEN Ok([h EXCEPT !.lbr[br] = @ \cup {p}])
    ELSE Fail(h)

brctl_delif(h, br, p) ==
    IF br \in DOMAIN h.lbr /\ p \in h.lbr[br]
    THEN Ok([h EXCEPT !.lbr[br] = @ \ {p}])
    ELSE Fail(h)

(***************************************************************************)
(* Open vSwitch.  h.ovs maps each bridge to [ports, flows]: ports maps a   *)
(* port name to its OpenFlow port number, flows is the flow table.         *)
(***************************************************************************)
\* ovs-vsctl add-br without --may-exist: an existing bridge is an error
ovs_add_br_strict(h, br) ==
    IF br \in DOMAIN h.ovs \/ Has(h, br, "root") THEN Fail(h)
    ELSE Ok([h EXCEPT !.ifs = @ \cup {Intf(br, "root", NoName, "ovs")},
                      !.ovs = (br :> [ports |-> << >>, flows |-> {}]) @@ @])

\* ovs-vsctl --may-exist add-br
ovs_add_br(h, br) ==
    IF br \in DOMAIN h.ovs THEN Ok(h)
    ELSE IF Has(h, br, "root") THEN Fail(h)
    ELSE Ok([h EXCEPT !.ifs = @ \cup {Intf(br, "root", NoName, "ovs")},
                      !.ovs = (br :> [ports |-> << >>, flows |-> {}]) @@ @])

\* ovs-vsctl --if-exists del-br
ovs_del_br(h, br) ==
    IF br \in DOMAIN h.ovs
    THEN Ok([h EXCEPT !.ifs = {i \in @ : ~(i.name = br /\ i.at = "root")},
                      !.ovs = [b \in DOMAIN @ \ {br} |-> @[b]]])
    ELSE Ok(h)

\* a lookup that finds no bridge for any port
get_ovs_bridge_by_port_none(h, port) == NoName

\* get_ovs_bridge_by_port (1832-1840): ovs-vsctl port-to-br, None on failure
get_ovs_bridge_by_port(h, port) ==
    IF \E b \in DOMAIN h.ovs : port \in DOMAIN h.ovs[b].ports
    THEN CHOOSE b \in DOMAIN h.ovs : port \in DOMAIN h.ovs[b].ports
    ELSE NoName

\* get_ovs_br_ports (1823-1830): ovs-vsctl list-ports <bridge> || true
get_ovs_br_ports(h, bridge) ==
    IF bridge \in DOMAIN h.ovs THEN DOMAIN h.ovs[bridge].ports ELSE {}

\* the lowest OpenFlow port number the bridge does not use
FreeOfport(ports) == Min({n \in 1..(Cardinality(DOMAIN ports) + 1) : n \notin Range(ports)})

\* ovs-vsctl --may-exist add-port <br> <port>
ovs_add_port(h, br, port) ==
    IF br \notin DOMAIN h.ovs THEN Fail(h)
    ELSE IF port \in DOMAIN h.ovs[br].ports THEN Ok(h)
    ELSE IF get_ovs_bridge_by_port(h, port) # NoName THEN Fail(h)
    ELSE Ok([h EXCEPT !.ovs[br].ports = (port :> FreeOfport(@)) @@ @])

\* ovs-vsctl --if-exists del-port <br> <port>: the flows naming the port remain
ovs_del_port(h, br, port) ==
    IF br \notin DOMAIN h.ovs THEN Fail(h)
    ELSE IF port \notin DOMAIN h.ovs[br].ports THEN Ok(h)
    ELSE Ok([h EXCEPT !.ovs[br].ports = [p \in DOMAIN @ \ {port} |-> @[p]]])

\* ovs-ofctl show <bridge>: the ports whose device exists, with their numbers
OfctlShow(h, bridge) ==
    LET ports == h.ovs[bridge].ports
    IN [p \in {q \in DOMAIN ports : Has(h, q, "root")} |-> ports[p]]

\* ovs-ofctl del-flows <br>
ovs_del_flows(h, br) ==
    IF br \in DOMAIN h.ovs THEN Ok([h EXCEPT !.ovs[br].flows = {}]) ELSE Fail(h)
(***************************************************************************)
(* Flow rules.  A rule is [priority, kw, in_port, m, out]: kw the protocol *)
(* keyword ("" for none), m the other match fields as <<field, value>>     *)
(* pairs, out the ports of its output actions ({} is action=drop).         *)
(***************************************************************************)
\* the priority ovs-ofctl gives a flow that names none
OFP_DEFAULT_PRIORITY == 32768

Rule(priority, kw, in_port, m, out) ==
    [priority |-> priority, kw |-> kw, in_port |-> in_port, m |-> m, out |-> out]

SameMatch(f, g) ==
    f.priority = g.priority /\ f.kw = g.kw /\ f.in_port = g.in_port /\ f.m = g.m

\* ovs-ofctl add-flow <br> <rule>: a flow with the same match and priority is replaced
ovs_add_flow(h, br, rule) ==
    IF br \in DOMAIN h.ovs
    THEN Ok([h EXCEPT !.ovs[br].flows = {f \in @ : ~SameMatch(f, rule)} \cup {rule}])
    ELSE Fail(h)

\* a disconnect that keeps the VM among the outputs of the DUT flow
DisconnectedFlowsToVm(dut_id, inj_id, vm_id) ==
    << Rule(OFP_DEFAULT_PRIORITY, "", vm_id, {}, {}),
       Rule(OFP_DEFAULT_PRIORITY, "", dut_id, {}, {vm_id, inj_id}) >>

\* lines 1164-1176: the two flows of a disconnected VM
DisconnectedFlows(dut_id, inj_id, vm_id) ==
    << Rule(OFP_DEFAULT_PRIORITY, "", vm_id, {}, {}),
       Rule(OFP_DEFAULT_PRIORITY, "", dut_id, {}, {inj_id}) >>

\* a connected table whose catch-all rule of the DUT port has the priority
\* of the BGP rule
ConnectedFlowsLevel(dut_id, inj_id, vm_id) ==
    << Rule(OFP_DEFAULT_PRIORITY, "", vm_id, {}, {dut_id}),
       Rule(10, "tcp", dut_id, {<<"tp_src", 179>>}, {vm_id, inj_id}),
       Rule(10, "", dut_id, {}, {vm_id, inj_id}),
       Rule(OFP_DEFAULT_PRIORITY, "", inj_id, {}, {dut_id}) >>

\* lines 1170-1171 and 1190-1252, in the order of the code
ConnectedFlows(dut_id, inj_id, vm_id) ==
    LET both == {vm_id, inj_id} IN
    << Rule(OFP_DEFAULT_PRIORITY, "", vm_id, {}, {dut_id}),
       Rule(10, "tcp", dut_id, {<<"tp_src", 179>>}, both),
       Rule(10, "tcp", dut_id, {<<"tp_dst", 179>>}, both),
       Rule(10, "tcp", dut_id, {<<"tp_dst", 22>>}, both),
       Rule(10, "tcp", dut_id, {<<"tp_src", 22>>}, both),
       Rule(10, "tcp6", dut_id, {<<"tp_src", 179>>}, both),
       Rule(10, "tcp6", dut_id, {<<"tp_dst", 179>>}, both),
       Rule(10, "tcp6", dut_id, {<<"tp_dst", 22>>}, both),
       Rule(10, "tcp6", dut_id, {<<"tp_src", 22>>}, both),
       Rule(10, "ip", dut_id, {<<"nw_proto", 4>>}, both),
       Rule(8, "ip", dut_id, {<<"nw_frag", 1>>}, both),
       Rule(8, "ipv6", dut_id, {<<"nw_frag", 1>>}, both),
       Rule(8, "icmp", dut_id, {}, both),
       Rule(8, "icmp6", dut_id, {}, both),
       Rule(8, "udp", dut_id, {<<"udp_src", 161>>}, both),
       Rule(8, "udp", dut_id, {<<"udp_src", 53>>}, {vm_id}),
       Rule(8, "udp6", dut_id, {<<"udp_src", 161>>}, both),
       Rule(6, "udp6", dut_id, {<<"udp_dst", 4784>>}, {inj_id}),
       Rule(5, "ip", dut_id, {}, {inj_id}),
       Rule(5, "ipv6", dut_id, {}, both),
       Rule(3, "", dut_id, {}, both),
       Rule(10, "ip", dut_id, {<<"nw_proto", 89>>}, both),
       Rule(10, "ipv6", dut_id, {<<"nw_proto", 89>>}, both),
       Rule(10, "udp", dut_id, {<<"udp_dst", 3784>>}, both),
       Rule(10, "udp6", dut_id, {<<"udp_dst", 3784>>}, both),
       Rule(10, "udp", dut_id, {<<"udp_src", 49152>>, <<"udp_dst", 3784>>}, both),
       Rule(10, "udp6", dut_id, {<<"udp_src", 49152>>, <<"udp_dst", 3784>>}, both),
       Rule(OFP_DEFAULT_PRIORITY, "", inj_id, {}, {dut_id}) >>

\* get_ovs_port_bindings (1842-1861) on a host that no longer changes: every
\* query gives the same listing, so the retries end as the first query does
get_ovs_port_bindings_ok(h, bridge, vlan_iface) ==
    bridge \in DOMAIN h.ovs /\ vlan_iface \subseteq DOMAIN OfctlShow(h, bridge)

\* the first half of bind_ovs_ports (1133-1159): move and attach the three ports
AttachOvsPorts(h, br_name, dut_iface, injected_iface, vm_iface) ==
    LET Detach(port, g) ==
            LET br == get_ovs_bridge_by_port(g, port)
            IN IF br # NoName /\ br # br_name THEN ovs_del_port(g, br, port) ELSE Ok(g)
        r1 == ForEach(<<injected_iface, dut_iface, vm_iface>>, Ok(h), Detach)
        ports == get_ovs_br_ports(r1.h, br_name)
        Attach(port, g) == IF port \notin ports THEN ovs_add_port(g, br_name, port) ELSE Ok(g)
    IN Then(r1, LAMBDA g : ForEach(<<injected_iface, dut_iface, vm_iface>>, Ok(g), Attach))

\* the second half (1156-1261): look the port numbers up, clear and install the flows
InstallFlows(h, br_name, dut_iface, injected_iface, vm_iface, disconnect_vm) ==
    IF ~get_ovs_port_bindings_ok(h, br_name, {dut_iface}) THEN Fail(h)
    ELSE LET bindings == OfctlShow(h, br_name) IN
         IF injected_iface \notin DOMAIN bindings \/ vm_iface \notin DOMAIN bindings
         THEN Fail(h)
         ELSE LET d == bindings[dut_iface]
                  i == bindings[injected_iface]
                  v == bindings[vm_iface]
                  rules == IF disconnect_vm THEN DisconnectedFlows(d, i, v)
                           ELSE ConnectedFlows(d, i, v)
              IN Then(ovs_del_flows(h, br_name),
                      LAMBDA g : ForEach(rules, Ok(g),
                                         LAMBDA rule, k : ovs_add_flow(k, br_name, rule)))

bind_ovs_ports_unplug(h, br_name, dut_iface, injected_iface, vm_iface, disconnect_vm) ==
    Then(Then(AttachOvsPorts(h, br_name, dut_iface, injected_iface, vm_iface),
              LAMBDA g : InstallFlows(g, br_name, dut_iface, injected_iface, vm_iface,
                                      disconnect_vm)),
         LAMBDA g : IF disconnect_vm THEN ovs_del_port(g, br_name, vm_iface) ELSE Ok(g))

\* bind_ovs_ports (1123-1261)
bind_ovs_ports(h, br_name, dut_iface, injected_iface, vm_iface, disconnect_vm) ==
    Then(AttachOvsPorts(h, br_name, dut_iface, injected_iface, vm_iface),
         LAMBDA g : InstallFlows(g, br_name, dut_iface, injected_iface, vm_iface,
                                 disconnect_vm))

\* unbind_ovs_ports (1263-1284): every port but the VM's leaves the bridge
unbind_ovs_ports(h, br_name, vm_port) ==
    IF intf_exists(h, br_name, NoPid, FALSE)
    THEN [ok |-> TRUE,
          h |-> IF br_name \in DOMAIN h.ovs
                THEN [h EXCEPT !.ovs[br_name].ports =
                                  [p \in DOMAIN @ \cap {vm_port} |-> @[p]]]
                ELSE h]
    ELSE Ok(h)

\* unbind_ovs_port (1286-1292)
unbind_ovs_port(h, br_name, port) ==
    IF intf_exists(h, br_name, NoPid, FALSE) /\ port \in get_ovs_br_ports(h, br_name)
    THEN ovs_del_port(h, br_name, port)
    ELSE Ok(h)

\* create_ovs_bridge (488-496), mtu = DEFAULT_MTU; ifconfig <bridge> up
create_ovs_bridge(h, bridge_name) ==
    Then(ovs_add_br(h, bridge_name),
         LAMBDA g : IF Has(g, bridge_name, "root")
                    THEN Ok(SetUp(g, bridge_name, "root", TRUE)) ELSE Fail(g))

\* destroy_ovs_bridge (504-506)
destroy_ovs_bridge(h, bridge_name) == ovs_del_br(h, bridge_name)
(***************************************************************************)
(* Addresses and routes.  h.addrs holds [at, name, ip]; h.routes holds the *)
(* default routes [at, name, ip, v6] (ip the gateway, name the device).    *)
(***************************************************************************)
At(pid, netns) == _intf_cmd(pid, netns)

\* ip_exists (1674-1682)
ip_exists(h, intf, ip_addr, pid, netns) ==
    [at |-> At(pid, netns), name |-> intf, ip |-> ip_addr] \in h.addrs

\* route_exists (1698-1706): the gateway appears in `ip route show default`
route_exists(h, gw, pid, netns, v6) ==
    \E r \in h.routes : r.at = At(pid, netns) /\ r.ip = gw /\ r.v6 = v6

\* ip addr add <ip> dev <intf>: exits 2 (File exists) when the address is there
ip_addr_add(h, at, intf, ip_addr) ==
    IF at = "none" \/ ~Has(h, intf, at)
       \/ [at |-> at, name |-> intf, ip |-> ip_addr] \in h.addrs
    THEN Fail(h)
    ELSE Ok([h EXCEPT !.addrs = @ \cup {[at |-> at, name |-> intf, ip |-> ip_addr]}])

\* ip [-6] addr flush dev <intf>: without -6 every family is flushed
ip_addr_flush(h, at, intf, v6) ==
    IF ~Has(h, intf, at) THEN Fail(h)
    ELSE Ok([h EXCEPT !.addrs = {a \in @ : ~(a.at = at /\ a.name = intf
                                               /\ (v6 => a.ip[1] = "v6"))}])

\* ip route add default via <gw> dev <intf>: File exists when there is a default route
ip_route_add_default(h, at, gw, intf, v6) ==
    IF at = "none" \/ ~Has(h, intf, at) \/ \E r \in h.routes : r.at = at /\ r.v6 = v6
    THEN Fail(h)
    ELSE Ok([h EXCEPT !.routes = @ \cup {[at |-> at, name |-> intf, ip |-> gw, v6 |-> v6]}])

\* ip route flush default
ip_route_flush_default(h, at, v6) ==
    Ok([h EXCEPT !.routes = {r \in @ : ~(r.at = at /\ r.v6 = v6)}])

\* the addresses main() passes; a gateway or address that is not given is NoIp
NoIp == <<"", 0>>
ptf_mgmt_ip_addr == <<"v4", 1>>
ptf_mgmt_ipv6_addr == <<"v6", 1>>
ptf_mgmt_ip_gw == <<"v4", 254>>
ptf_mgmt_ipv6_gw == <<"v6", 254>>
ptf_bp_ip_addr == <<"v4", 2>>
ptf_bp_ipv6_addr == <<"v6", 2>>
netns_mgmt_ip_addr == <<"v4", 3>>
ExtraIp == <<"v4", 9>>
soc_ipv4(i) == <<"v4", 100 + i>>

\* add_ip_to_docker_if (615-644), api_server_pid = None
add_ip_to_docker_if(h, pid, int_if, mgmt_ip_addr, mgmt_ipv6_addr, mgmt_gw, mgmt_gw_v6, extra_mgmt_ip_addr) ==
    IF ~intf_exists(h, int_if, pid, FALSE) THEN Ok(h)
    ELSE
    LET at == IF pid = NoPid THEN "none" ELSE "ctn"
        r1 == IF ~ip_exists(h, int_if, mgmt_ip_addr, pid, FALSE)
              THEN ip_addr_add(h, at, int_if, mgmt_ip_addr) ELSE Ok(h)
        r2 == ForEach(extra_mgmt_ip_addr, r1,
                      LAMBDA ip, g : IF ip # NoIp THEN ip_addr_add(g, at, int_if, ip) ELSE Ok(g))
        r3 == When(mgmt_gw # NoIp, r2,
                   LAMBDA g : IF ~route_exists(g, mgmt_gw, pid, FALSE, FALSE)
                              THEN ip_route_add_default(g, at, mgmt_gw, int_if, FALSE)
                              ELSE Ok(g))
        r4 == When(mgmt_ipv6_addr # NoIp, r3,
                   LAMBDA g : IF ~ip_exists(g, int_if, mgmt_ipv6_addr, pid, FALSE)
                              THEN ip_addr_add(g, at, int_if, mgmt_ipv6_addr) ELSE Ok(g))
    IN When(mgmt_ipv6_addr # NoIp /\ mgmt_gw_v6 # NoIp, r4,
            LAMBDA g : IF ~route_exists(g, mgmt_gw_v6, pid, FALSE, TRUE)
                       THEN ip_route_add_default(g, at, mgmt_gw_v6, int_if, TRUE)
                       ELSE Ok(g))

\* add_ip_to_netns_if (646-667)
add_ip_to_netns_if(h, int_if, ip_addr, ipv6_addr, default_gw, default_gw_v6) ==
    IF ~intf_exists(h, int_if, NoPid, TRUE) THEN Ok(h)
    ELSE
    LET r1 == Then(ip_addr_flush(h, "ns", int_if, FALSE),
                   LAMBDA g : ip_addr_add(g, "ns", int_if, ip_addr))
        r2 == When(default_gw # NoIp, r1,
                   LAMBDA g : Then(ip_route_flush_default(g, "ns", FALSE),
                       LAMBDA k : ip_route_add_default(k, "ns", default_gw, int_if, FALSE)))
        r3 == When(ipv6_addr # NoIp, r2,
                   LAMBDA g : Then(ip_addr_flush(g, "ns", int_if, TRUE),
                       LAMBDA k : ip_addr_add(k, "ns", int_if, ipv6_addr)))
    IN When(ipv6_addr # NoIp /\ default_gw_v6 # NoIp, r3,
            LAMBDA g : Then(ip_route_flush_default(g, "ns", TRUE),
                LAMBDA k : ip_route_add_default(k, "ns", default_gw_v6, int_if, TRUE)))
(***************************************************************************)
(* Veth pairs into the container and the namespace.                        *)
(***************************************************************************)
\* brctl_show(bridge)[1] (1879-1909): the interfaces of the bridge, {} on failure
brctl_show_ifs(h, bridge) == IF bridge \in DOMAIN h.lbr THEN h.lbr[bridge] ELSE {}

\* the namespace a pid or a netns names for `ip link set ... netns`
NsOf(pid) == IF pid = NoPid THEN NoPid ELSE "ctn"

\* the shared body of add_br_if_to_docker (570-590) and add_br_if_to_netns (592-613)
AddBrIf(h, bridge, ext_if, int_if, pid, netns) ==
    LET tmp_int_if == FingerprintName(int_if, ext_if)
        to == IF netns THEN "ns" ELSE NsOf(pid)
        r1 == IF intf_not_exists(h, ext_if, NoPid, FALSE)
              THEN ip_link_add_veth(h, ext_if, tmp_int_if) ELSE Ok(h)
        r2 == Then(r1, LAMBDA g : IF ext_if \notin brctl_show_ifs(g, bridge)
                                  THEN brctl_addif(g, bridge, ext_if) ELSE Ok(g))
        r3 == Then(r2, LAMBDA g : iface_up(g, ext_if, NoPid, FALSE))
        r4 == Then(r3, LAMBDA g :
                  IF intf_exists(g, tmp_int_if, NoPid, FALSE)
                     /\ intf_not_exists(g, tmp_int_if, pid, netns)
                  THEN Then(ip_link_set_netns(g, tmp_int_if, "root", to),
                            LAMBDA k : ip_link_set_name(k, to, tmp_int_if, int_if))
                  ELSE Ok(g))
    IN Then(r4, LAMBDA g : iface_up(g, int_if, pid, netns))

add_br_if_to_docker(h, pid, bridge, ext_if, int_if) ==
    AddBrIf(h, bridge, ext_if, int_if, pid, FALSE)

add_br_if_to_netns(h, bridge, ext_if, int_if) ==
    AddBrIf(h, bridge, ext_if, int_if, NoPid, TRUE)

\* the shared body of add_veth_if_to_docker (719-796, create_vlan_subintf False)
\* and add_veth_if_to_netns (798-836)
AddVethIf(h, ext_if, int_if, pid, netns) ==
    LET t_int_if == adaptive_temporary_interface(int_if)
        to == IF netns THEN "ns" ELSE NsOf(pid)
        r1 == IF intf_exists(h, t_int_if, NoPid, FALSE) THEN ip_link_del(h, t_int_if)
              ELSE Ok(h)
        r2 == Then(r1, LAMBDA g : IF intf_not_exists(g, ext_if, NoPid, FALSE)
                                  THEN ip_link_add_veth(g, ext_if, t_int_if) ELSE Ok(g))
        r3 == Then(r2, LAMBDA g : iface_up(g, ext_if, NoPid, FALSE))
        r4 == Then(r3, LAMBDA g :
                  IF intf_exists(g, t_int_if, NoPid, FALSE)
                     /\ intf_not_exists(g, t_int_if, pid, netns)
                     /\ intf_not_exists(g, int_if, pid, netns)
                  THEN ip_link_set_netns(g, t_int_if, "root", to) ELSE Ok(g))
        r5 == Then(r4, LAMBDA g :
                  IF intf_exists(g, t_int_if, pid, netns)
                     /\ intf_not_exists(g, int_if, pid, netns)
                  THEN ip_link_set_name(g, to, t_int_if, int_if) ELSE Ok(g))
    IN Then(r5, LAMBDA g : iface_up(g, int_if, pid, netns))

add_veth_if_to_docker(h, pid, ext_if, int_if) == AddVethIf(h, ext_if, int_if, pid, FALSE)
add_veth_if_to_netns(h, ext_if, int_if) == AddVethIf(h, ext_if, int_if, NoPid, TRUE)

\* add_dut_if_to_docker (669-680)
add_dut_if_to_docker(h, pid, iface_name, dut_iface) ==
    LET r1 == IF intf_exists(h, dut_iface, NoPid, FALSE)
                 /\ intf_not_exists(h, dut_iface, pid, FALSE)
                 /\ intf_not_exists(h, iface_name, pid, FALSE)
              THEN ip_link_set_netns(h, dut_iface, "root", NsOf(pid)) ELSE Ok(h)
        r2 == Then(r1, LAMBDA g :
                  IF intf_exists(g, dut_iface, pid, FALSE)
                     /\ intf_not_exists(g, iface_name, pid, FALSE)
                  THEN ip_link_set_name(g, NsOf(pid), dut_iface, iface_name) ELSE Ok(g))
    IN Then(r2, LAMBDA g : iface_up(g, iface_name, pid, FALSE))

\* remove_dut_if_from_docker (692-706)
remove_dut_if_from_docker(h, pid, iface_name, dut_iface) ==
    IF pid = NoPid THEN Ok(h)
    ELSE
    LET r1 == IF intf_exists(h, iface_name, pid, FALSE)
              THEN Then(iface_down(h, iface_name, pid, FALSE), LAMBDA g :
                       IF intf_not_exists(g, dut_iface, pid, FALSE)
                       THEN ip_link_set_name(g, "ctn", iface_name, dut_iface) ELSE Ok(g))
              ELSE Ok(h)
    IN Then(r1, LAMBDA g :
           IF intf_not_exists(g, dut_iface, NoPid, FALSE) /\ intf_exists(g, dut_iface, pid, FALSE)
           THEN ip_link_set_netns(g, dut_iface, "ctn", "root") ELSE Ok(g))

\* remove_veth_if_from_docker (1544-1558); `ip link delete dev <ext_if> || true`
remove_veth_if_from_docker(h, pid, ext_if, int_if, tmp_name) ==
    LET r1 == IF intf_exists(h, int_if, pid, FALSE)
              THEN Then(iface_down(h, int_if, pid, FALSE), LAMBDA g :
                   Then(ip_link_set_name(g, NsOf(pid), int_if, tmp_name), LAMBDA k :
                        ip_link_set_netns(k, tmp_name, NsOf(pid), "root")))
              ELSE Ok(h)
    IN Then(r1, LAMBDA g :
           IF intf_exists(g, ext_if, NoPid, FALSE) THEN Ok(ip_link_del(g, ext_if).h) ELSE Ok(g))

\* remove_ptf_mgmt_port (1560-1563)
remove_ptf_mgmt_port(h, pid) ==
    remove_veth_if_from_docker(h, pid, PTF_MGMT_IF, MGMT_PORT_NAME,
                               FingerprintName(MGMT_PORT_NAME, PTF_MGMT_IF))

\* remove_ptf_backplane_port (1565-1568)
remove_ptf_backplane_port(h, pid) ==
    remove_veth_if_from_docker(h, pid, PTF_BP_IF, BP_PORT_NAME,
                               FingerprintName(BP_PORT_NAME, PTF_BP_IF))

(***************************************************************************)
(* The named network namespace.                                            *)
(***************************************************************************)
\* ip netns delete: the veth ends inside go with their peers, other devices
\* return to the root namespace, addresses and routes inside are gone
ip_netns_delete(h) ==
    LET inside == {i \in h.ifs : i.at = "ns"}
        pairs == {i.pair : i \in {j \in inside : j.kind = "veth"}}
        gone == {i \in h.ifs : i.kind = "veth" /\ i.pair \in pairs}
        back == {[i EXCEPT !.at = "root", !.up = FALSE] : i \in inside \ gone}
        rootgone == {i.name : i \in {j \in gone : j.at = "root"}}
    IN IF ~h.netns THEN Fail(h)
       ELSE Ok([h EXCEPT !.netns = FALSE,
                         !.ifs = (@ \ (gone \cup inside)) \cup back,
                         !.lbr = Unenslave(@, rootgone),
                         !.addrs = {a \in @ : a.at # "ns"},
                         !.routes = {a \in @ : a.at # "ns"},
                         !.rules = {}, !.troutes = {}])

\* delete_network_namespace (466-469)
delete_network_namespace(h) == IF h.netns THEN ip_netns_delete(h) ELSE Ok(h)

\* add_network_namespace (461-464)
add_network_namespace(h) ==
    Then(delete_network_namespace(h),
         LAMBDA g : IF g.netns THEN Fail(g) ELSE Ok([g EXCEPT !.netns = TRUE]))

\* `ip netns exec <netns> <command>` for a command that changes nothing modelled:
\* enable_arp_filter_netns (471-473), enable_netns_loopback (1450-1452)
netns_exec(h) == IF h.netns THEN Ok(h) ELSE Fail(h)

\* add_mgmt_port_to_netns (475-480)
add_mgmt_port_to_netns(h, mgmt_bridge, mgmt_ip, mgmt_gw) ==
    Then(IF intf_not_exists(h, MGMT_PORT_NAME, NoPid, TRUE)
         THEN add_br_if_to_netns(h, mgmt_bridge, NETNS_MGMT_IF, MGMT_PORT_NAME)
         ELSE Ok(h),
         LAMBDA g : add_ip_to_netns_if(g, MGMT_PORT_NAME, mgmt_ip, NoIp, mgmt_gw, NoIp))
(***************************************************************************)
(* The topology.  A port reference of the topology file is a triple        *)
(* <<d, v, p>>: the string "d.v@p"; p = None for the string "d.v";         *)
(* d = p = None for the bare integer v.  Two references are the same       *)
(* string (or the same integer) exactly when the triples are equal.  A     *)
(* host interface is the sequence of the comma separated references of its *)
(* string.  topo.multi is len(duts_name) > 1.                              *)
(***************************************************************************)
IsInt(ref) == ref[1] = None /\ ref[3] = None
\* re.match(r"^\d+\.\d+(@\d+)?$", p)
IsDutPortString(ref) == ref[1] # None /\ ref[1] >= 0 /\ ref[2] >= 0

\* parse_vm_vlan_port (1911-1929): a string without '@' does not match, and
\* m.group raises AttributeError
parse_vm_vlan_port(vlan) ==
    IF IsInt(vlan)
    THEN [ok |-> TRUE, dut_index |-> 0, vlan_index |-> vlan[2], ptf_index |-> vlan[2]]
    ELSE IF vlan[3] # None
    THEN [ok |-> TRUE, dut_index |-> vlan[1], vlan_index |-> vlan[2], ptf_index |-> vlan[3]]
    ELSE [ok |-> FALSE, dut_index |-> None, vlan_index |-> None, ptf_index |-> None]

\* check_topo (1932-2008): [ok, hostif_exists, vms_exists]; ok = FALSE is a
\* raised exception.  all_intfs is the set the code accumulates.
CheckRefs(refs, multi, acc) ==
    LET F[i \in 0..Len(refs)] ==
            IF i = 0 THEN acc
            ELSE LET a == F[i - 1]
                     r == refs[i]
                     condition == IF multi THEN IsDutPortString(r)
                                  ELSE IsInt(r) /\ r[2] >= 0
                 IN IF ~a.ok THEN a
                    ELSE IF ~condition \/ r \in a.all_intfs
                    THEN [ok |-> FALSE, all_intfs |-> a.all_intfs]
                    ELSE [ok |-> TRUE, all_intfs |-> a.all_intfs \cup {r}]
    IN F[Len(refs)]

Flatten(seqs) ==
    LET F[i \in 0..Len(seqs)] == IF i = 0 THEN << >> ELSE F[i - 1] \o seqs[i]
    IN F[Len(seqs)]

\* for host_intf in host_interfaces: in multi-DUT form every part of
\* host_intf.split(',') is checked, and splitting an integer raises; in
\* single-DUT form the entry itself is checked
HostIntfRefs(t) == Flatten(t.host_interfaces)

HostIntfsWellTyped(t) ==
    \A i \in 1..Len(t.host_interfaces) :
        IF t.multi THEN \A j \in 1..Len(t.host_interfaces[i]) : ~IsInt(t.host_interfaces[i][j])
        ELSE Len(t.host_interfaces[i]) = 1

VlanRefs(t) == Flatten([i \in 1..Len(t.VMs) |-> t.VMs[i].vlans])

check_topo(t, is_multi_duts) ==
    LET a0 == [ok |-> TRUE, all_intfs |-> {}]
        a1 == IF ~t.has_host_interfaces THEN a0
              ELSE IF ~HostIntfsWellTyped(t) THEN [ok |-> FALSE, all_intfs |-> {}]
              ELSE CheckRefs(HostIntfRefs(t), is_multi_duts, a0)
        a2 == IF ~a1.ok \/ ~t.has_VMs THEN a1
              ELSE CheckRefs(VlanRefs(t), is_multi_duts, a1)
    IN [ok |-> a2.ok, hostif_exists |-> t.has_host_interfaces, vms_exists |-> t.has_VMs]

\* _parse_host_interfaces (385-420): the tuple of a reference, of 2 or 3 items
HasPtfIndex(x) == x[3] # None

\* host_ifindex = intf[0][2] if len(intf[0]) == 3 else i (1382, 1409, 1521)
host_ifindex(intf, i) == IF HasPtfIndex(intf[1]) THEN intf[1][3] ELSE i

\* isinstance(intf, list): the string had more than one part
IsDual(intf) == Len(intf) > 1

\* duts_fp_ports[duts_name[d]][str(v)]
fp_port(d, v) == DutPort(d, v)

\* net.netns (332-336)
net_netns(t) == t.host_interfaces_active_active # {}
(***************************************************************************)
(* The operations of VMTopology over a topology t.  vm_names is            *)
(* 0..NumVMs-1 and vm_base the first of them, so a VM is named by its      *)
(* vm_offset; vm_properties is empty (no backend device types).  The keys  *)
(* VM_LINKs, OVS_LINKs, devices_interconnect_interfaces and the flag       *)
(* is_vs_chassis are fields a topology record may lack.  worker.map runs   *)
(* its items in order here; the pooled form is the subject of SpecPool.    *)
(***************************************************************************)
NumVMs == 2
max_fp_num == 2
vm_names == 0..(NumVMs - 1)

\* net.init (261-284): the VMs whose name is within vm_names
net_VMs(t) == IF t.has_VMs THEN SelectSeq(t.VMs, LAMBDA a : a.vm_offset \in vm_names)
              ELSE << >>

\* the (vm, idx, vlan) of every `for idx, vlan in enumerate(attr['vlans'])`
VlanItems(t) ==
    Flatten([k \in 1..Len(net_VMs(t)) |->
                [i \in 1..Len(net_VMs(t)[k].vlans) |->
                    [vm |-> net_VMs(t)[k].vm_offset, idx |-> i - 1,
                     vlan |-> net_VMs(t)[k].vlans[i]]]])

AllParse(items) == \A i \in 1..Len(items) : parse_vm_vlan_port(items[i].vlan).ok

\* the check_bridge part of net.init (297-305)
check_bridge(h, t) ==
    \A k \in 1..Len(net_VMs(t)) :
        Len(net_VMs(t)[k].vlans)
            <= Cardinality({i \in h.ifs : i.at = "root" /\ i.name[1] = "br"
                                          /\ i.name[2] = net_VMs(t)[k].vm_offset})

BridgeList == Flatten([vm \in 1..NumVMs |-> [n \in 1..max_fp_num |-> OVS_FP_BRIDGE(vm - 1, n - 1)]])

\* create_bridges (482-486)
create_bridges(h) == ForEach(BridgeList, Ok(h), LAMBDA b, g : create_ovs_bridge(g, b))

\* destroy_bridges (498-502)
destroy_bridges(h) == ForEach(BridgeList, Ok(h), LAMBDA b, g : destroy_ovs_bridge(g, b))

\* add_mgmt_port_to_docker (548-562), api_server_pid = None
add_mgmt_port_to_docker(h, pid, mgmt_bridge, mgmt_ip, mgmt_gw, mgmt_ipv6_addr, mgmt_gw_v6, extra_mgmt_ip_addr) ==
    Then(IF intf_not_exists(h, MGMT_PORT_NAME, pid, FALSE)
         THEN add_br_if_to_docker(h, pid, mgmt_bridge, PTF_MGMT_IF, MGMT_PORT_NAME)
         ELSE Ok(h),
         LAMBDA g : add_ip_to_docker_if(g, pid, MGMT_PORT_NAME, mgmt_ip, mgmt_ipv6_addr,
                                        mgmt_gw, mgmt_gw_v6, extra_mgmt_ip_addr))

\* iface_disable_txoff (1725-1730): ethtool -K <iface> tx off
iface_disable_txoff(h, iface_name, pid) ==
    IF Has(h, iface_name, _intf_cmd(pid, FALSE)) THEN Ok(h) ELSE Fail(h)

\* add_bp_port_to_docker (564-568)
add_bp_port_to_docker(h, pid, mgmt_ip, mgmt_ipv6) ==
    Then(add_br_if_to_docker(h, pid, ROOT_BACK_BR, PTF_BP_IF, BP_PORT_NAME), LAMBDA g :
    Then(add_ip_to_docker_if(g, pid, BP_PORT_NAME, mgmt_ip, mgmt_ipv6, NoIp, NoIp, << >>),
         LAMBDA k : iface_disable_txoff(k, BP_PORT_NAME, pid)))

\* unbind_mgmt_port (845-849)
unbind_mgmt_port(h, mgmt_port) ==
    IF mgmt_port \in if_to_br(h) THEN brctl_delif(h, BridgeOf(h, mgmt_port), mgmt_port)
    ELSE Ok(h)

\* add_injected_fp_ports_to_docker (508-537)
add_injected_fp_ports_to_docker(h, pid, t) ==
    ForEach(VlanItems(t), Ok(h), LAMBDA it, g :
        LET q == parse_vm_vlan_port(it.vlan)
        IN IF ~q.ok THEN Fail(g)
           ELSE add_veth_if_to_docker(g, pid, INJECTED_INTERFACES(q.ptf_index),
                                      PTF_FP_IFACE(q.ptf_index)))

\* remove_injected_fp_ports_from_docker (1570-1581)
remove_injected_fp_ports_from_docker(h, pid, t) ==
    ForEach(VlanItems(t), Ok(h), LAMBDA it, g :
        LET q == parse_vm_vlan_port(it.vlan)
            ext_if == INJECTED_INTERFACES(q.ptf_index)
            int_if == PTF_FP_IFACE(q.ptf_index)
        IN IF ~q.ok THEN Fail(g)
           ELSE remove_veth_if_from_docker(g, pid, ext_if, int_if,
                                           FingerprintName(int_if, ext_if)))

\* self.VM_LINKs and self.OVS_LINKs (307-315): the topology may lack the keys
net_VM_LINKs(t) == IF "VM_LINKs" \in DOMAIN t THEN t.VM_LINKs ELSE << >>
net_OVS_LINKs(t) == IF "OVS_LINKs" \in DOMAIN t THEN t.OVS_LINKs ELSE << >>

\* "br_{}".format(k.lower())
LINK_BRIDGE(k) == <<"br_", k, 0>>

\* add_injected_VM_ports_to_docker (539-546)
add_injected_VM_ports_to_docker(h, pid, t) ==
    ForEach(net_OVS_LINKs(t), Ok(h), LAMBDA a, g :
        ForEach(a.vlans, Ok(g), LAMBDA vlan, g1 :
            LET q == parse_vm_vlan_port(vlan)
            IN IF ~q.ok THEN Fail(g1)
               ELSE add_veth_if_to_docker(g1, pid, INJECTED_INTERFACES(q.ptf_index),
                                          PTF_FP_IFACE(q.ptf_index))))

\* bind_vm_link (1033-1052)
bind_vm_link(h, br_name, port1, port2) ==
    LET DelPort(port, g) ==
            LET br == get_ovs_bridge_by_port(g, port)
            IN IF br # NoName THEN ovs_del_port(g, br, port) ELSE Ok(g)
        r1 == IF intf_not_exists(h, br_name, NoPid, FALSE) THEN brctl_addbr(h, br_name) ELSE Ok(h)
        r2 == Then(r1, LAMBDA g : iface_up(g, br_name, NoPid, FALSE))
        r3 == Then(r2, LAMBDA g : DelPort(port1, g))
        r4 == Then(r3, LAMBDA g : DelPort(port2, g))
        r5 == Then(r4, LAMBDA g :
                 IF br_name \notin DOMAIN g.lbr THEN Fail(g)
                 ELSE Then(IF port1 \notin g.lbr[br_name] THEN brctl_addif(g, br_name, port1)
                           ELSE Ok(g),
                           LAMBDA k : IF port2 \notin k.lbr[br_name]
                                      THEN brctl_addif(k, br_name, port2) ELSE Ok(k)))
    IN Then(r5, LAMBDA g : Then(iface_up(g, port1, NoPid, FALSE),
                                LAMBDA k : iface_up(k, port2, NoPid, FALSE)))

\* bind_fp_ports (938-968): the loops over VM_LINKs and OVS_LINKs that
\* follow the map
BindLinks(h, t, disconnect_vm) ==
    LET port1(a) == OVS_FP_TAP(a.start_vm_offset, a.start_vm_port_idx)
        port2(a) == OVS_FP_TAP(a.end_vm_offset, a.end_vm_port_idx)
        r1 == ForEach(net_VM_LINKs(t), Ok(h), LAMBDA a, g :
                  bind_vm_link(g, LINK_BRIDGE(a.k), port1(a), port2(a)))
    IN ForEach(net_OVS_LINKs(t), r1, LAMBDA a, g :
          ForEach(a.vlans, create_ovs_bridge(g, LINK_BRIDGE(a.k)), LAMBDA vlan, g1 :
              LET q == parse_vm_vlan_port(vlan)
              IN IF ~q.ok THEN Fail(g1)
                 ELSE bind_ovs_ports(g1, LINK_BRIDGE(a.k), port1(a),
                                     INJECTED_INTERFACES(q.ptf_index), port2(a),
                                     disconnect_vm)))

\* the argument tuple bind_fp_ports builds for one vlan (918-930)
bind_ovs_ports_args(it) ==
    LET q == parse_vm_vlan_port(it.vlan)
    IN [op |-> "args", disconnect_vm |-> FALSE,
        br_name |-> OVS_FP_BRIDGE(it.vm, it.idx),
        dut_iface |-> fp_port(q.dut_index, q.vlan_index),
        injected_iface |-> INJECTED_INTERFACES(q.ptf_index),
        vm_iface |-> OVS_FP_TAP(it.vm, it.idx)]

\* the lambda bind_fp_ports maps (936): bind_ovs_ports(*args)
bind_fp_ports_item(h, it, disconnect_vm) ==
    LET a == bind_ovs_ports_args(it)
    IN bind_ovs_ports(h, a.br_name, a.dut_iface, a.injected_iface, a.vm_iface, disconnect_vm)

\* bind_fp_ports (899-968): the arguments are built first, then mapped
bind_fp_ports(h, t, disconnect_vm) ==
    IF ~AllParse(VlanItems(t)) THEN Fail(h)
    ELSE Then(ForEach(VlanItems(t), Ok(h),
                      LAMBDA it, g : bind_fp_ports_item(g, it, disconnect_vm)),
              LAMBDA g : BindLinks(g, t, disconnect_vm))

\* unbind_vm_link (1025-1031); `brctl delbr <br_name> || true`
unbind_vm_link(h, br_name, port1, port2) ==
    LET r1 == IF port1 \in if_to_br(h) THEN brctl_delif(h, br_name, port1) ELSE Ok(h)
        r2 == Then(r1, LAMBDA g : IF port2 \in if_to_br(g) THEN brctl_delif(g, br_name, port2)
                                  ELSE Ok(g))
    IN Then(r2, LAMBDA g : brctl_delbr_or_true(g, br_name))

\* unbind_fp_ports (987-1003): the loop over VM_LINKs
UnbindVmLinks(h, t) ==
    ForEach(net_VM_LINKs(t), Ok(h), LAMBDA a, g :
        LET br_name == LINK_BRIDGE(a.k)
            port1 == OVS_FP_TAP(a.start_vm_offset, a.start_vm_port_idx)
            port2 == OVS_FP_TAP(a.end_vm_offset, a.end_vm_port_idx)
        IN IF a.use_ovs = 1
           THEN Then(unbind_ovs_port(g, br_name, port1), LAMBDA g1 :
                Then(unbind_ovs_port(g1, br_name, port2), LAMBDA g2 :
                     destroy_ovs_bridge(g2, br_name)))
           ELSE unbind_vm_link(g, br_name, port1, port2))

\* unbind_fp_ports (1005-1023): the loop over OVS_LINKs
UnbindOvsLinks(h, t) ==
    ForEach(net_OVS_LINKs(t), Ok(h), LAMBDA a, g :
        LET br_name == LINK_BRIDGE(a.k)
            port1 == OVS_FP_TAP(a.start_vm_offset, a.start_vm_port_idx)
            port2 == OVS_FP_TAP(a.end_vm_offset, a.end_vm_port_idx)
        IN ForEach(a.vlans, create_ovs_bridge(g, br_name), LAMBDA vlan, g1 :
              LET q == parse_vm_vlan_port(vlan)
              IN IF ~q.ok THEN Fail(g1)
                 ELSE Then(unbind_ovs_ports(g1, br_name, port1), LAMBDA g2 :
                      Then(unbind_ovs_ports(g2, br_name, port2), LAMBDA g3 :
                           unbind_ovs_ports(g3, br_name, INJECTED_INTERFACES(q.ptf_index))))))

\* unbind_fp_ports (970-1023)
unbind_fp_ports(h, t) ==
    LET r1 == ForEach(VlanItems(t), Ok(h), LAMBDA it, g :
                  unbind_ovs_ports(g, OVS_FP_BRIDGE(it.vm, it.idx), OVS_FP_TAP(it.vm, it.idx)))
        r2 == Then(r1, LAMBDA g : UnbindVmLinks(g, t))
    IN Then(r2, LAMBDA g : UnbindOvsLinks(g, t))

\* bind_vm_backplane (1055-1071); br_to_ifs[self.bp_bridge] raises KeyError
\* when brctl does not list the bridge
bind_vm_backplane(h, t) ==
    LET r1 == IF intf_not_exists(h, ROOT_BACK_BR, NoPid, FALSE)
              THEN brctl_addbr(h, ROOT_BACK_BR) ELSE Ok(h)
        r2 == Then(r1, LAMBDA g : iface_up(g, ROOT_BACK_BR, NoPid, FALSE))
    IN ForEach(net_VMs(t), r2, LAMBDA attr, g :
          LET bp_port_name == OVS_BP_TAP(attr.vm_offset)
          IN IF ROOT_BACK_BR \notin DOMAIN g.lbr THEN Fail(g)
             ELSE Then(IF bp_port_name \notin g.lbr[ROOT_BACK_BR]
                       THEN brctl_addif(g, ROOT_BACK_BR, bp_port_name) ELSE Ok(g),
                       LAMBDA k : iface_up(k, bp_port_name, NoPid, FALSE)))

\* unbind_vm_backplane (1073-1077)
unbind_vm_backplane(h) ==
    IF intf_exists(h, ROOT_BACK_BR, NoPid, FALSE)
    THEN Then(iface_down(h, ROOT_BACK_BR, NoPid, FALSE),
              LAMBDA g : brctl_delbr_or_true(g, ROOT_BACK_BR))
    ELSE Ok(h)
\* create_dualtor_cable (1294-1355), active_if_index = 0; nic_if = NoName is None
create_dualtor_cable(h, host_ifidx, host_if, upper_if, lower_if, nic_if) ==
    LET br_name == IF nic_if = NoName THEN MUXY_BRIDGE(host_ifidx)
                   ELSE ACTIVE_ACTIVE_BRIDGE(host_ifidx)
        r1 == create_ovs_bridge(h, br_name)
        r2 == ForEach(<<host_if, upper_if, lower_if>>, r1, LAMBDA intf, g :
                  LET br == get_ovs_bridge_by_port(g, intf)
                  IN IF br # NoName /\ br # br_name THEN ovs_del_port(g, br, intf) ELSE Ok(g))
        ports == get_ovs_br_ports(r2.h, br_name)
        ports_to_be_attached == IF nic_if = NoName THEN <<host_if, upper_if, lower_if>>
                                ELSE <<host_if, upper_if, lower_if, nic_if>>
        r3 == ForEach(ports_to_be_attached, r2, LAMBDA intf, g :
                  IF intf \notin ports THEN ovs_add_port(g, br_name, intf) ELSE Ok(g))
        bridge_ports == IF nic_if = NoName THEN {upper_if, lower_if}
                        ELSE {upper_if, lower_if, nic_if}
    IN Then(r3, LAMBDA g :
          IF ~get_ovs_port_bindings_ok(g, br_name, bridge_ports) THEN Fail(g)
          ELSE LET bindings == OfctlShow(g, br_name) IN
               IF host_if \notin DOMAIN bindings THEN Fail(g)
               ELSE LET r4 == ovs_del_flows(g, br_name) IN
                    IF nic_if # NoName THEN r4
                    ELSE ForEach(<< Rule(OFP_DEFAULT_PRIORITY, "", bindings[host_if], {},
                                         {bindings[upper_if], bindings[lower_if]}),
                                    Rule(OFP_DEFAULT_PRIORITY, "", bindings[upper_if], {},
                                         {bindings[host_if]}) >>,
                                 r4, LAMBDA rule, k : ovs_add_flow(k, br_name, rule)))

\* remove_dualtor_cable (1357-1364)
remove_dualtor_cable(h, host_ifidx, is_active_active) ==
    destroy_ovs_bridge(h, IF is_active_active THEN ACTIVE_ACTIVE_BRIDGE(host_ifidx)
                          ELSE MUXY_BRIDGE(host_ifidx))

\* enumerate(self.host_interfaces)
HostItems(t) == [i \in 1..Len(t.host_interfaces) |-> [i |-> i - 1, intf |-> t.host_interfaces[i]]]

\* _add_host_port (1373-1446), not a cable topology ('VMs' is in the topology)
_add_host_port(h, pid, t, i, intf) ==
    IF t.multi THEN
        IF IsDual(intf) THEN
            LET hi == host_ifindex(intf, i)
                is_active_active == intf \in t.host_interfaces_active_active
                dual_if == IF is_active_active THEN ACTIVE_ACTIVE_INTERFACES(hi)
                           ELSE MUXY_INTERFACES(hi)
                nic_if == IF is_active_active THEN SERVER_NIC_INTERFACE(hi) ELSE NoName
                r1 == add_veth_if_to_docker(h, pid, dual_if, PTF_FP_IFACE(hi))
                r2 == When(is_active_active, r1, LAMBDA g :
                          Then(add_veth_if_to_netns(g, nic_if, NETNS_IFACE(hi)), LAMBDA k :
                               add_ip_to_netns_if(k, NETNS_IFACE(hi), soc_ipv4(hi), NoIp, NoIp, NoIp)))
            IN Then(r2, LAMBDA g :
                   create_dualtor_cable(g, hi, dual_if, fp_port(intf[1][1], intf[1][2]),
                                        fp_port(intf[2][1], intf[2][2]), nic_if))
        ELSE add_dut_if_to_docker(h, pid, PTF_FP_IFACE(host_ifindex(intf, i)),
                                  fp_port(intf[1][1], intf[1][2]))
    ELSE add_dut_if_to_docker(h, pid, PTF_FP_IFACE(intf[1][2]), fp_port(0, intf[1][2]))

\* add_host_ports (1366-1448)
add_host_ports(h, pid, t) ==
    ForEach(HostItems(t), Ok(h), LAMBDA it, g : _add_host_port(g, pid, t, it.i, it.intf))

\* _remove_host_port (1518-1540)
_remove_host_port(h, pid, t, i, intf) ==
    IF t.multi THEN
        IF IsDual(intf)
        THEN remove_dualtor_cable(h, host_ifindex(intf, i),
                                  intf \in t.host_interfaces_active_active)
        ELSE remove_dut_if_from_docker(h, pid, PTF_FP_IFACE(host_ifindex(intf, i)),
                                       fp_port(intf[1][1], intf[1][2]))
    ELSE remove_dut_if_from_docker(h, pid, PTF_FP_IFACE(intf[1][2]), fp_port(0, intf[1][2]))

\* remove_host_ports (1512-1542)
remove_host_ports(h, pid, t) ==
    ForEach(HostItems(t), Ok(h), LAMBDA it, g : _remove_host_port(g, pid, t, it.i, it.intf))

\* the routing table slots (1476, 1487)
slot_start_index == 100
MaxRtSlot == 252

\* `ip netns exec <ns> ip rule add ...`: File exists for a rule that is there
ip_rule_add(h, rule) ==
    IF ~h.netns \/ rule \in h.rules THEN Fail(h)
    ELSE Ok([h EXCEPT !.rules = @ \cup {rule}])

\* the routing without the test of the slot against the cap
setup_netns_source_routing_uncapped(h, t) ==
    ForEach(HostItems(t), Ok(h), LAMBDA it, g :
        IF t.multi /\ IsDual(it.intf) /\ it.intf \in t.host_interfaces_active_active
        THEN LET hi == host_ifindex(it.intf, it.i)
                 ns_if == NETNS_IFACE(hi)
                 rt_slot == slot_start_index + hi
             IN IF ~intf_exists(g, ns_if, NoPid, TRUE) THEN Fail(g)
                ELSE Then(Ok([g EXCEPT !.rt_tables = @ \cup {rt_slot}]), LAMBDA k1 :
                     Then(ip_rule_add(k1, <<"iif", ns_if>>), LAMBDA k2 :
                     Then(ip_rule_add(k2, <<"from", ns_if>>), LAMBDA k3 :
                          Ok([k3 EXCEPT !.troutes = (@ \ {r \in @ : r[1] = ns_if})
                                            \cup {<<ns_if, "net">>, <<ns_if, "default">>}]))))
        ELSE Ok(g))

\* setup_netns_source_routing (1454-1510)
setup_netns_source_routing(h, t) ==
    ForEach(HostItems(t), Ok(h), LAMBDA it, g :
        IF t.multi /\ IsDual(it.intf) /\ it.intf \in t.host_interfaces_active_active
        THEN LET hi == host_ifindex(it.intf, it.i)
                 ns_if == NETNS_IFACE(hi)
                 rt_slot == slot_start_index + hi
             IN IF ~intf_exists(g, ns_if, NoPid, TRUE) \/ rt_slot > MaxRtSlot THEN Fail(g)
                ELSE Then(Ok([g EXCEPT !.rt_tables = @ \cup {rt_slot}]), LAMBDA k1 :
                     Then(ip_rule_add(k1, <<"iif", ns_if>>), LAMBDA k2 :
                     Then(ip_rule_add(k2, <<"from", ns_if>>), LAMBDA k3 :
                          Ok([k3 EXCEPT !.troutes = (@ \ {r \in @ : r[1] = ns_if})
                                            \cup {<<ns_if, "net">>, <<ns_if, "default">>}]))))
        ELSE Ok(g))
(***************************************************************************)
(* main(): one invocation of the module is a command over the live host.   *)
(* The validation (check_topo, net.init) is the start of the invocation;   *)
(* each net.* call of main() is one step.                                  *)
(***************************************************************************)
\* the PTF container of the set is running: get_pid gives its pid
PtfPid == "ctn"

Commands == {"create", "destroy", "bind", "unbind", "renumber", "connect-vms", "disconnect-vms"}

\* is_vs_chassis (2282) comes with the invocation like the topology: the
\* flag travels in the topology record, absent when the parameter is not set
is_vs_chassis(t) == "is_vs_chassis" \in DOMAIN t /\ t.is_vs_chassis

VS_CHASSIS_INBAND_BRIDGE == <<"br-inb", 0, 0>>
VS_CHASSIS_MIDPLANE_BRIDGE == <<"br-mid", 0, 0>>

\* module.params['duts_midplane_ports'] and ['duts_inband_ports'], a list
\* of ports for every DUT: the default {}
duts_midplane_ports == << >>
duts_inband_ports == << >>

\* bind_vs_dut_ports (1105-1113)
bind_vs_dut_ports(h, br_name, dut_ports) ==
    LET br_ports == get_ovs_br_ports(h, br_name)
    IN ForEach(dut_ports, Ok(h), LAMBDA port, g :
          LET br == get_ovs_bridge_by_port(g, port)
              r1 == IF br # NoName /\ br # br_name THEN ovs_del_port(g, br, port) ELSE Ok(g)
          IN Then(r1, LAMBDA k : IF port \notin br_ports THEN ovs_add_port(k, br_name, port)
                                 ELSE Ok(k)))

\* unbind_vs_dut_ports (1115-1121)
unbind_vs_dut_ports(h, br_name, dut_ports) ==
    IF intf_exists(h, br_name, NoPid, FALSE)
    THEN LET br_ports == get_ovs_br_ports(h, br_name)
         IN ForEach(dut_ports, Ok(h), LAMBDA port, g :
               IF port \in br_ports THEN ovs_del_port(g, br_name, port) ELSE Ok(g))
    ELSE Ok(h)

\* bind_vs_chassis_ports (1079-1090)
bind_vs_chassis_ports(h, midplane_ports, inband_ports) ==
    LET r1 == create_ovs_bridge(h, VS_CHASSIS_INBAND_BRIDGE)
        r2 == Then(r1, LAMBDA g : create_ovs_bridge(g, VS_CHASSIS_MIDPLANE_BRIDGE))
        r3 == ForEach(midplane_ports, r2, LAMBDA ports, g :
                  bind_vs_dut_ports(g, VS_CHASSIS_MIDPLANE_BRIDGE, ports))
    IN ForEach(inband_ports, r3, LAMBDA ports, g :
           bind_vs_dut_ports(g, VS_CHASSIS_INBAND_BRIDGE, ports))

\* unbind_vs_chassis_ports (1092-1103)
unbind_vs_chassis_ports(h, midplane_ports, inband_ports) ==
    LET r1 == ForEach(midplane_ports, Ok(h), LAMBDA ports, g :
                  unbind_vs_dut_ports(g, VS_CHASSIS_MIDPLANE_BRIDGE, ports))
        r2 == ForEach(inband_ports, r1, LAMBDA ports, g :
                  unbind_vs_dut_ports(g, VS_CHASSIS_INBAND_BRIDGE, ports))
        r3 == Then(r2, LAMBDA g : destroy_ovs_bridge(g, VS_CHASSIS_INBAND_BRIDGE))
    IN Then(r3, LAMBDA g : destroy_ovs_bridge(g, VS_CHASSIS_MIDPLANE_BRIDGE))

\* self.devices_interconnect_interfaces (339-340): a list of vlans for
\* every link, {} when the topology lacks the key
net_devices_interconnect(t) ==
    IF "devices_interconnect_interfaces" \in DOMAIN t THEN t.devices_interconnect_interfaces
    ELSE << >>

\* check_devices_interconnect (2011-2035)
check_devices_interconnect(t, is_multi_dut) ==
    LET links == net_devices_interconnect(t)
        vlans == Flatten([k \in 1..Len(links) |-> links[k].vlans])
    IN [ok |-> /\ \A i \in 1..Len(vlans) :
                     IF is_multi_dut THEN IsDutPortString(vlans[i]) ELSE IsInt(vlans[i])
               /\ \A i, j \in 1..Len(vlans) : vlans[i] = vlans[j] => i = j,
        devices_interconnect_exists |-> "devices_interconnect_interfaces" \in DOMAIN t]

OVS_INTERCONNECTION_BRIDGE(link_index) == <<"bic", link_index, 0>>

\* bind_devices_interconnect_ports (883-897)
bind_devices_interconnect_ports(h, br_name, vlan1_iface, vlan2_iface) ==
    LET ports == get_ovs_br_ports(h, br_name)
        r1 == IF vlan1_iface \notin ports THEN ovs_add_port(h, br_name, vlan1_iface) ELSE Ok(h)
        r2 == Then(r1, LAMBDA g : IF vlan2_iface \notin ports
                                  THEN ovs_add_port(g, br_name, vlan2_iface) ELSE Ok(g))
    IN Then(r2, LAMBDA g :
          IF ~get_ovs_port_bindings_ok(g, br_name, {vlan1_iface, vlan2_iface}) THEN Fail(g)
          ELSE LET bindings == OfctlShow(g, br_name)
               IN ForEach(<< Rule(OFP_DEFAULT_PRIORITY, "", bindings[vlan1_iface], {},
                                  {bindings[vlan2_iface]}),
                             Rule(OFP_DEFAULT_PRIORITY, "", bindings[vlan2_iface], {},
                                  {bindings[vlan1_iface]}) >>,
                          ovs_del_flows(g, br_name),
                          LAMBDA rule, k : ovs_add_flow(k, br_name, rule)))

\* bind_devices_interconnect (851-865)
bind_devices_interconnect(h, t) ==
    ForEach(net_devices_interconnect(t), Ok(h), LAMBDA link, g :
        LET br_name == OVS_INTERCONNECTION_BRIDGE(link.link_index)
            q1 == parse_vm_vlan_port(link.vlans[1])
            q2 == parse_vm_vlan_port(link.vlans[Len(link.vlans)])
        IN Then(create_ovs_bridge(g, br_name), LAMBDA k :
              IF ~q1.ok \/ ~q2.ok THEN Fail(k)
              ELSE bind_devices_interconnect_ports(k, br_name,
                                                   fp_port(q1.dut_index, q1.vlan_index),
                                                   fp_port(q2.dut_index, q2.vlan_index))))

\* unbind_devices_interconnect (867-881)
unbind_devices_interconnect(h, t) ==
    ForEach(net_devices_interconnect(t), Ok(h), LAMBDA link, g :
        LET br_name == OVS_INTERCONNECTION_BRIDGE(link.link_index)
            q1 == parse_vm_vlan_port(link.vlans[1])
            q2 == parse_vm_vlan_port(link.vlans[Len(link.vlans)])
        IN IF ~q1.ok \/ ~q2.ok THEN Fail(g)
           ELSE Then(unbind_ovs_port(g, br_name, fp_port(q1.dut_index, q1.vlan_index)),
                     LAMBDA k1 :
                Then(unbind_ovs_port(k1, br_name, fp_port(q2.dut_index, q2.vlan_index)),
                     LAMBDA k2 : destroy_ovs_bridge(k2, br_name))))

\* the commands that validate the topology and call net.init
Validating == Commands \ {"create", "destroy"}

\* main() up to and including net.init: FALSE when an exception is raised
Validate(c, t, h) ==
    IF c \notin Validating THEN TRUE
    ELSE /\ check_topo(t, t.multi).ok
         /\ (c \in {"bind", "unbind", "renumber"} => check_devices_interconnect(t, t.multi).ok)
         /\ (c # "unbind" => check_bridge(h, t))

IfSeq(c, seq) == IF c THEN seq ELSE << >>

BindTailRoutingFirst(t, vs_call) ==
    IfSeq(t.has_VMs, <<"add_injected_fp_ports_to_docker",
                       "add_injected_VM_ports_to_docker", "bind_fp_ports",
                       "bind_vm_backplane", "add_bp_port_to_docker">>)
    \o IfSeq(t.has_VMs /\ is_vs_chassis(t), <<vs_call>>)
    \o IfSeq(net_netns(t), <<"add_network_namespace", "enable_arp_filter_netns",
                             "add_mgmt_port_to_netns", "enable_netns_loopback">>)
    \o IfSeq(net_netns(t), <<"setup_netns_source_routing">>)
    \o IfSeq(t.has_host_interfaces, <<"add_host_ports">>)
    \o IfSeq(check_devices_interconnect(t, t.multi).devices_interconnect_exists,
             <<"bind_devices_interconnect">>)

\* the calls of bind from the front-panel injection on (2360-2385), which
\* renumber makes again (2518-2542); vs_call is the call of
\* bind_vs_chassis_ports as the branch of the command makes it
BindTailWith(t, vs_call) ==
    IfSeq(t.has_VMs, <<"add_injected_fp_ports_to_docker",
                       "add_injected_VM_ports_to_docker", "bind_fp_ports",
                       "bind_vm_backplane", "add_bp_port_to_docker">>)
    \o IfSeq(t.has_VMs /\ is_vs_chassis(t), <<vs_call>>)
    \o IfSeq(net_netns(t), <<"add_network_namespace", "enable_arp_filter_netns",
                             "add_mgmt_port_to_netns", "enable_netns_loopback">>)
    \o IfSeq(t.has_host_interfaces, <<"add_host_ports">>)
    \o IfSeq(net_netns(t), <<"setup_netns_source_routing">>)
    \o IfSeq(check_devices_interconnect(t, t.multi).devices_interconnect_exists,
             <<"bind_devices_interconnect">>)

BindTail(t) == BindTailWith(t, "bind_vs_chassis_ports")

\* the net.* calls main() makes for a command, in order (2299-2573)
Program(c, t) ==
    CASE c = "create" -> <<"create_bridges">>
      [] c = "destroy" -> <<"destroy_bridges">>
      [] c = "bind" -> <<"add_mgmt_port_to_docker">> \o BindTail(t)
      [] c = "unbind" ->
            IfSeq(t.has_VMs, <<"unbind_vm_backplane", "unbind_fp_ports",
                               "remove_injected_fp_ports_from_docker">>)
            \o IfSeq(t.has_VMs /\ is_vs_chassis(t), <<"unbind_vs_chassis_ports">>)
            \o IfSeq(t.has_host_interfaces, <<"remove_host_ports">>)
            \o <<"remove_ptf_mgmt_port", "remove_ptf_backplane_port">>
            \o IfSeq(net_netns(t), <<"unbind_mgmt_port", "delete_network_namespace">>)
            \o IfSeq(check_devices_interconnect(t, t.multi).devices_interconnect_exists,
                     <<"unbind_devices_interconnect">>)
      [] c = "renumber" ->
            <<"add_mgmt_port_to_docker">>
            \o IfSeq(net_netns(t), <<"unbind_mgmt_port", "delete_network_namespace">>)
            \o IfSeq(t.has_VMs, <<"unbind_fp_ports">>)
            \o IfSeq(t.has_VMs /\ is_vs_chassis(t), <<"unbind_vs_chassis_ports(unbound)">>)
            \o BindTailWith(t, "bind_vs_chassis_ports(unbound)")
      [] c = "connect-vms" -> IfSeq(t.has_VMs, <<"bind_fp_ports">>)
      [] c = "disconnect-vms" -> IfSeq(t.has_VMs, <<"bind_fp_ports(True)">>)

\* one net.* call with the arguments main() gives it
Call(name, h, t, x) ==
    CASE name = "create_bridges" -> create_bridges(h)
      [] name = "destroy_bridges" -> destroy_bridges(h)
      [] name = "add_mgmt_port_to_docker" ->
            add_mgmt_port_to_docker(h, PtfPid, MgmtBridge, ptf_mgmt_ip_addr, ptf_mgmt_ip_gw,
                                    ptf_mgmt_ipv6_addr, ptf_mgmt_ipv6_gw, x)
      [] name = "add_injected_fp_ports_to_docker" -> add_injected_fp_ports_to_docker(h, PtfPid, t)
      [] name = "add_injected_VM_ports_to_docker" -> add_injected_VM_ports_to_docker(h, PtfPid, t)
      [] name = "bind_fp_ports" -> bind_fp_ports(h, t, FALSE)
      [] name = "bind_fp_ports(True)" -> bind_fp_ports(h, t, TRUE)
      [] name = "bind_vm_backplane" -> bind_vm_backplane(h, t)
      [] name = "add_bp_port_to_docker" ->
            add_bp_port_to_docker(h, PtfPid, ptf_bp_ip_addr, ptf_bp_ipv6_addr)
      [] name = "add_network_namespace" -> add_network_namespace(h)
      [] name = "enable_arp_filter_netns" -> netns_exec(h)
      [] name = "add_mgmt_port_to_netns" ->
            add_mgmt_port_to_netns(h, MgmtBridge, netns_mgmt_ip_addr, ptf_mgmt_ip_gw)
      [] name = "enable_netns_loopback" -> netns_exec(h)
      [] name = "add_host_ports" -> add_host_ports(h, PtfPid, t)
      [] name = "setup_netns_source_routing" -> setup_netns_source_routing(h, t)
      [] name = "unbind_vm_backplane" -> unbind_vm_backplane(h)
      [] name = "unbind_fp_ports" -> unbind_fp_ports(h, t)
      [] name = "remove_injected_fp_ports_from_docker" ->
            remove_injected_fp_ports_from_docker(h, PtfPid, t)
      [] name = "remove_host_ports" -> remove_host_ports(h, PtfPid, t)
      [] name = "remove_ptf_mgmt_port" -> remove_ptf_mgmt_port(h, PtfPid)
      [] name = "remove_ptf_backplane_port" -> remove_ptf_backplane_port(h, PtfPid)
      [] name = "unbind_mgmt_port" -> unbind_mgmt_port(h, NETNS_MGMT_IF)
      [] name = "delete_network_namespace" -> delete_network_namespace(h)
      [] name = "bind_devices_interconnect" -> bind_devices_interconnect(h, t)
      [] name = "unbind_devices_interconnect" -> unbind_devices_interconnect(h, t)
      [] name = "bind_vs_chassis_ports" ->
            bind_vs_chassis_ports(h, duts_midplane_ports, duts_inband_ports)
      [] name = "unbind_vs_chassis_ports" ->
            unbind_vs_chassis_ports(h, duts_midplane_ports, duts_inband_ports)
      \* the renumber branch of main() never assigns duts_midplane_ports and
      \* duts_inband_ports (2461-2542): reading them raises UnboundLocalError
      [] name \in {"bind_vs_chassis_ports(unbound)", "unbind_vs_chassis_ports(unbound)"} ->
            Fail(h)

\* the calls of a program from call number `from` on, stopping at an exception
RunFrom(prog, from, h, t, x) ==
    ForEach(SubSeq(prog, from, Len(prog)), Ok(h), LAMBDA name, g : Call(name, g, t, x))

\* a whole invocation on host h: [ok, h]
Run(c, h, t, x) == IF Validate(c, t, h) THEN RunFrom(Program(c, t), 1, h, t, x) ELSE Fail(h)
(***************************************************************************)
(* The hosts and topologies of the orchestrator model.                     *)
(***************************************************************************)
NumDuts == 2
MaxPort == 3
MaxRuns == 4

\* a server before any command: the management bridge, the front panel ports
\* of the DUTs and the taps of the running VMs
CleanHost ==
    [ifs |-> {[Intf(MgmtBridge, "root", NoName, "bridge") EXCEPT !.up = TRUE]}
             \cup {Intf(DutPort(d, v), "root", NoName, "phys") : d \in 0..(NumDuts - 1), v \in 0..MaxPort}
             \cup {Intf(OVS_FP_TAP(vm, n), "root", NoName, "tap") : vm \in vm_names, n \in 0..(max_fp_num - 1)}
             \cup {Intf(OVS_BP_TAP(vm), "root", NoName, "tap") : vm \in vm_names},
     lbr |-> (MgmtBridge :> {}),
     ovs |-> << >>,
     netns |-> FALSE,
     addrs |-> {}, routes |-> {}, rules |-> {}, troutes |-> {}, rt_tables |-> {}]

IntRef(n) == <<None, n, None>>
VM(vlans, vm_offset) == [vlans |-> vlans, vm_offset |-> vm_offset]
Topo(multi, his, aa, vms) ==
    [multi |-> multi, has_host_interfaces |-> TRUE, host_interfaces |-> his,
     host_interfaces_active_active |-> aa, has_VMs |-> TRUE, VMs |-> vms]

\* single DUT: host_interfaces [0, 1], VMs with vlans [2] and [3]
TopoSingle == Topo(FALSE, << <<IntRef(0)>>, <<IntRef(1)>> >>, {}, << VM(<<IntRef(2)>>, 0), VM(<<IntRef(3)>>, 1) >>)
\* two DUTs, one port per host interface: ["0.0@0", "1.0"], vlans ["0.2@2"], ["1.2@3"]
TopoMulti == Topo(TRUE, << << <<0, 0, 0>> >>, << <<1, 0, None>> >> >>, {},
                  << VM(<< <<0, 2, 2>> >>, 0), VM(<< <<1, 2, 3>> >>, 1) >>)
\* dual-ToR with a mux cable: host_interfaces ["0.0@0,1.0@0"]
TopoDualTor == Topo(TRUE, << << <<0, 0, 0>>, <<1, 0, 0>> >> >>, {},
                    << VM(<< <<0, 2, 2>> >>, 0), VM(<< <<1, 2, 3>> >>, 1) >>)
\* dual-ToR active-active: the same interface is in host_interfaces_active_active
TopoActiveActive == Topo(TRUE, << << <<0, 0, 0>>, <<1, 0, 0>> >> >>,
                         { << <<0, 0, 0>>, <<1, 0, 0>> >> },
                         << VM(<< <<0, 2, 2>> >>, 0) >>)
\* single DUT, vlan 1 of a VM is also host interface 1
TopoDupSingle == Topo(FALSE, << <<IntRef(0)>>, <<IntRef(1)>> >>, {}, << VM(<<IntRef(2)>>, 0), VM(<<IntRef(1)>>, 1) >>)
\* two DUTs, "0.2@2" in the vlans of both VMs
TopoDupMulti == Topo(TRUE, << << <<0, 0, 0>> >> >>, {},
                     << VM(<< <<0, 2, 2>> >>, 0), VM(<< <<0, 2, 2>> >>, 1) >>)
\* two DUTs, port 2 of DUT 0 as "0.2@2" in one VM and as "0.2@3" in the other
TopoDupSuffix == Topo(TRUE, << << <<0, 0, 0>> >> >>, {},
                      << VM(<< <<0, 2, 2>> >>, 0), VM(<< <<0, 2, 3>> >>, 1) >>)

Topologies == {TopoSingle, TopoMulti, TopoDualTor, TopoActiveActive,
               TopoDupSingle, TopoDupMulti, TopoDupSuffix}

NoPrev == [cmd |-> "none", result |-> "none", rejected |-> FALSE, host0 |-> CleanHost]

NoCall == [op |-> "none", br_name |-> NoName, dut_iface |-> NoName,
           injected_iface |-> NoName, vm_iface |-> NoName, disconnect_vm |-> FALSE]

\* check_topo has been given nothing yet
NoTopo == [multi |-> FALSE, has_host_interfaces |-> FALSE, host_interfaces |-> << >>,
           host_interfaces_active_active |-> {}, has_VMs |-> FALSE, VMs |-> << >>]

TopoIdle == ctopo = NoTopo /\ cres = "none"

\* VMTopology.cmd has not been called
NoShell == [cmdline_ori |-> << >>, grep_cmd_ori |-> << >>, retry |-> 1, negative |-> FALSE,
            split_cmd |-> TRUE, ignore_errors |-> FALSE, cmdline |-> << >>,
            attempts |-> << >>, outcome |-> [kind |-> "none"]]

ShellIdle == sh = NoShell

\* no batch-mode pass has been started
NoBatch == [major |-> 3, tasks |-> << >>, done |-> 0, processes |-> << >>, err_msgs |-> << >>,
            phase |-> "none", i |-> 0, outcome |-> "none", error |-> [kind |-> "none"]]

BatchIdle == bt = NoBatch

\* no helper function has been called
NoFn == << >>
HelperIdle == fn = NoFn

\* a worker just constructed (2112-2141): no map and no shutdown call yet
NewPool == [state |-> "up", maps |-> 0, shutdowns |-> 0]

PoolIdle ==
    /\ wmode = "sequential" /\ wtasks = << >> /\ wstate = << >> /\ wraised = "idle"
    /\ whost = CleanHost /\ whost0 = CleanHost
    /\ wlog = << >> /\ wbuf = << >> /\ wattached = FALSE
    /\ wpool = NewPool

InitOther == TopoIdle /\ PoolIdle /\ ShellIdle /\ BatchIdle /\ HelperIdle

\* no invocation of the module yet, on the host of one topology
OrchIdle ==
    /\ host = CleanHost
    /\ cmd = "none" /\ pc = 0 /\ item = 0 /\ last = NoCall
    /\ result = "none" /\ rejected = FALSE /\ runs = 0
    /\ host0 = CleanHost
    /\ prev = NoPrev

Init ==
    /\ topo \in Topologies
    /\ extra \in {<< >>, <<ExtraIp>>}
    /\ OrchIdle
    /\ InitOther

\* ansible runs the module with a command: main() validates and calls net.init
Invoke(c) ==
    /\ result # "running"
    /\ runs < MaxRuns
    /\ cmd' = c /\ pc' = 0 /\ item' = 0 /\ last' = NoCall /\ runs' = runs + 1
    /\ host0' = host
    /\ prev' = [cmd |-> cmd, result |-> result, rejected |-> rejected, host0 |-> host0]
    /\ rejected' = ~Validate(c, topo, host)
    /\ result' = IF rejected' THEN "failed"
                 ELSE IF Program(c, topo) = << >> THEN "ok" ELSE "running"
    /\ UNCHANGED <<topo, extra, host, tvars, wvars, avars>>

BindFp == {"bind_fp_ports", "bind_fp_ports(True)"}

\* the next net.* call of main(); an exception ends the invocation in fail_json
Step ==
    /\ result = "running"
    /\ Program(cmd, topo)[pc + 1] \notin BindFp
    /\ LET prog == Program(cmd, topo)
           r == Call(prog[pc + 1], host, topo, extra)
       IN /\ host' = r.h
          /\ pc' = IF r.ok THEN pc + 1 ELSE pc
          /\ result' = IF ~r.ok THEN "failed"
                       ELSE IF pc + 1 = Len(prog) THEN "ok" ELSE "running"
    /\ item' = 0 /\ last' = NoCall
    /\ UNCHANGED <<topo, extra, cmd, rejected, runs, host0, prev, tvars, wvars, avars>>

\* inside bind_fp_ports: worker.map runs bind_ovs_ports on its next item; the
\* call returns when the last item is done
BindFpItem ==
    /\ result = "running"
    /\ Program(cmd, topo)[pc + 1] \in BindFp
    /\ LET prog == Program(cmd, topo)
           items == VlanItems(topo)
           disconnect_vm == prog[pc + 1] = "bind_fp_ports(True)"
           done == item + 1 >= Len(items)
           r0 == IF ~AllParse(items) THEN Fail(host)
                 ELSE IF items = << >> THEN Ok(host)
                 ELSE bind_fp_ports_item(host, items[item + 1], disconnect_vm)
           r == IF r0.ok /\ done THEN BindLinks(r0.h, topo, disconnect_vm) ELSE r0
       IN /\ host' = r.h
          /\ last' = IF r.ok /\ items # << >>
                     THEN [bind_ovs_ports_args(items[item + 1]) EXCEPT !.op = "bind_ovs_ports",
                                                                       !.disconnect_vm = disconnect_vm]
                     ELSE NoCall
          /\ item' = IF r.ok /\ ~done THEN item + 1 ELSE 0
          /\ pc' = IF r.ok /\ done THEN pc + 1 ELSE pc
          /\ result' = IF ~r.ok THEN "failed"
                       ELSE IF done /\ pc + 1 = Len(prog) THEN "ok" ELSE "running"
    /\ UNCHANGED <<topo, extra, cmd, rejected, runs, host0, prev, tvars, wvars, avars>>

\* a bind is stopped between two of its calls (the module's process is killed)
Stop ==
    /\ result = "running" /\ cmd = "bind"
    /\ result' = "stopped"
    /\ UNCHANGED <<topo, extra, host, cmd, pc, item, last, rejected, runs, host0, prev,
                   tvars, wvars, avars>>

Next == (\E c \in Commands : Invoke(c)) \/ Step \/ BindFpItem \/ Stop

Spec == Init /\ [][Next]_vars
(***************************************************************************)
(* What a flow table does to a packet.  A packet class is [eth, proto,     *)
(* src, dst, frag]; the bridge applies the matching flow of the highest    *)
(* priority and drops a packet no flow matches.                            *)
(***************************************************************************)
L4Ports == {1, 22, 53, 161, 179, 3784, 4784, 49152}
Packets == [eth : {"ip", "ipv6", "arp"}, proto : {1, 4, 6, 17, 58, 89},
            src : L4Ports, dst : L4Ports, frag : BOOLEAN]

\* the protocol keyword of a flow: its ethertype and IP protocol
KwMatches(kw, pkt) ==
    CASE kw = "" -> TRUE
      [] kw = "ip" -> pkt.eth = "ip"
      [] kw = "ipv6" -> pkt.eth = "ipv6"
      [] kw = "tcp" -> pkt.eth = "ip" /\ pkt.proto = 6
      [] kw = "tcp6" -> pkt.eth = "ipv6" /\ pkt.proto = 6
      [] kw = "udp" -> pkt.eth = "ip" /\ pkt.proto = 17
      [] kw = "udp6" -> pkt.eth = "ipv6" /\ pkt.proto = 17
      [] kw = "icmp" -> pkt.eth = "ip" /\ pkt.proto = 1
      [] kw = "icmp6" -> pkt.eth = "ipv6" /\ pkt.proto = 58

FieldMatches(fv, pkt) ==
    CASE fv[1] \in {"tp_src", "udp_src"} -> pkt.src = fv[2]
      [] fv[1] \in {"tp_dst", "udp_dst"} -> pkt.dst = fv[2]
      [] fv[1] = "nw_proto" -> pkt.proto = fv[2]
      [] fv[1] = "nw_frag" -> pkt.frag

Matches(f, in_port, pkt) ==
    f.in_port = in_port /\ KwMatches(f.kw, pkt) /\ \A fv \in f.m : FieldMatches(fv, pkt)

\* the ports a packet entering on in_port leaves by: {} is a drop
Output(flows, in_port, pkt) ==
    LET ms == {f \in flows : Matches(f, in_port, pkt)}
    IN IF ms = {} THEN {}
       ELSE UNION {f.out : f \in {g \in ms : \A k \in ms : k.priority <= g.priority}}

\* the bridge and the OpenFlow numbers of the ports of the call that has just returned
LastFlows == host.ovs[last.br_name].flows
LastPort(name) == host.ovs[last.br_name].ports[name]
LastAttached(name) == name \in DOMAIN host.ovs[last.br_name].ports

AfterBindOvsPorts == last.op = "bind_ovs_ports"
(***************************************************************************)
(* Properties of the flow tables bind_ovs_ports installs.                  *)
(***************************************************************************)
\* C4: after every bind_ovs_ports, with the VM connected or disconnected,
\* the flow table of the bridge has a flow that forwards what enters on the
\* PTF-injected port to the DUT-facing port.
C4_PtfToDutAlwaysPresent ==
    AfterBindOvsPorts =>
        \E f \in LastFlows : /\ f.in_port = LastPort(last.injected_iface)
                             /\ f.kw = "" /\ f.m = {}
                             /\ LastPort(last.dut_iface) \in f.out

\* C5: after bind_ovs_ports with disconnect_vm true, the three ports are
\* attached to the bridge, every packet entering on the VM-facing port is
\* dropped, no flow outputs to the VM-facing port, and every packet entering
\* on the DUT-facing port is forwarded to the PTF-injected port.
C5_DisconnectedVm ==
    (AfterBindOvsPorts /\ last.disconnect_vm) =>
        /\ LastAttached(last.dut_iface) /\ LastAttached(last.injected_iface)
        /\ LastAttached(last.vm_iface)
        /\ \A pkt \in Packets : Output(LastFlows, LastPort(last.vm_iface), pkt) = {}
        /\ \A f \in LastFlows : LastPort(last.vm_iface) \notin f.out
        /\ \A pkt \in Packets :
              LastPort(last.injected_iface) \in Output(LastFlows, LastPort(last.dut_iface), pkt)

\* a VM that was connected (its bridge held the connected table when the
\* command started) has just been disconnected
C5_Witness ==
    /\ AfterBindOvsPorts /\ last.disconnect_vm
    /\ last.br_name \in DOMAIN host0.ovs
    /\ \E f \in host0.ovs[last.br_name].flows : f.priority = 10
    /\ \E f \in LastFlows : f.out = {}
(***************************************************************************)
(* Properties of the commands.                                             *)
(***************************************************************************)
\* the virtual-interface inventory of a host: its bridges, its veth ends
\* (by name and namespace) and its named namespace
Inventory(h) ==
    [bridges |-> DOMAIN h.lbr \cup DOMAIN h.ovs,
     veths |-> {<<i.name, i.at>> : i \in {j \in h.ifs : j.kind = "veth"}},
     netns |-> h.netns]

\* a host on which nothing of the topology is bound: no veth, no namespace
Unbound(h) == Inventory(h).veths = {} /\ ~h.netns

\* C1: for a validated topology, a bind run to completion on a host where
\* nothing is bound, followed by an unbind run to completion, leaves exactly
\* the bridges, veth interfaces and namespaces the host had before the bind.
C1_BindUnbindRestoresInventory ==
    (/\ cmd = "unbind" /\ result = "ok"
     /\ prev.cmd = "bind" /\ prev.result = "ok" /\ Unbound(prev.host0))
    => Inventory(host) = Inventory(prev.host0)

\* C2: after a bind that stopped after any of its steps or ran to completion
\* on a host where nothing was bound, a second bind with the same parameters
\* completes without error in the host state one bind reaches on that host.
C2_RetriedBindConverges ==
    (/\ cmd = "bind" /\ result \in {"ok", "failed"}
     /\ prev.cmd = "bind" /\ prev.result \in {"ok", "stopped"} /\ Unbound(prev.host0)
     /\ Run("bind", prev.host0, topo, extra).ok)
    => /\ result = "ok"
       /\ host = Run("bind", prev.host0, topo, extra).h

\* the packets of the DUT-facing port that reach the PTF-injected port, and
\* where the packets of the PTF-injected port go, on the bridge of one vlan
DutPtfForwarding(h, it) ==
    LET a == bind_ovs_ports_args(it)
        b == h.ovs[a.br_name]
    IN [to_ptf |-> {pkt \in Packets :
                       b.ports[a.injected_iface] \in Output(b.flows, b.ports[a.dut_iface], pkt)},
        from_ptf |-> [pkt \in Packets |-> Output(b.flows, b.ports[a.injected_iface], pkt)]]

\* the flows of the bridge of one vlan that do not match on its VM-facing port
NotVmFacing(h, it) ==
    LET a == bind_ovs_ports_args(it)
        b == h.ovs[a.br_name]
    IN {f \in b.flows : f.in_port # b.ports[a.vm_iface]}

\* the command ran on a bound topology: the invocation before it was a bind,
\* connect-vms or disconnect-vms that succeeded
OnBoundTopology ==
    prev.cmd \in {"bind", "connect-vms", "disconnect-vms"} /\ prev.result = "ok"

\* C3: disconnect-vms and connect-vms run on a bound topology leave the
\* forwarding between the DUT-facing and the PTF-injected port of every
\* front panel bridge as it was, and change no flow but the VM-facing one.
C3_DisconnectConnectKeepsDutPtf ==
    (cmd \in {"connect-vms", "disconnect-vms"} /\ result = "ok" /\ OnBoundTopology)
    => \A k \in 1..Len(VlanItems(topo)) :
          /\ DutPtfForwarding(host, VlanItems(topo)[k]) = DutPtfForwarding(host0, VlanItems(topo)[k])
          /\ NotVmFacing(host, VlanItems(topo)[k]) = NotVmFacing(host0, VlanItems(topo)[k])

\* the DUT port a reference names: (dut index, vlan index)
DutPortOf(ref) == IF IsInt(ref) THEN <<0, ref[2]>> ELSE <<ref[1], ref[2]>>

\* a vlan of a VM names a DUT port that another vlan or a host interface names
ReusesVlan(t) ==
    LET hs == HostIntfRefs(t)
        vs == VlanRefs(t)
    IN \E j \in 1..Len(vs) :
          \/ \E i \in 1..Len(vs) : i # j /\ DutPortOf(vs[i]) = DutPortOf(vs[j])
          \/ \E i \in 1..Len(hs) : DutPortOf(hs[i]) = DutPortOf(vs[j])

\* C9: bind, renumber, unbind, connect-vms and disconnect-vms reject a
\* topology whose VM vlans reuse a vlan index used elsewhere, before any
\* command that creates or changes a network object is issued.
C9_DuplicateVlanRejectedFirst ==
    (cmd \in Validating /\ ReusesVlan(topo))
    => (rejected /\ result = "failed" /\ pc = 0 /\ host = host0)
(***************************************************************************)
(* check_topo on the topologies a topology file can hold.  The topology    *)
(* is written entry by entry, then checked.                                *)
(***************************************************************************)
MaxRefs == 3
\* "0.0", "0.0@0", "0.0@1", "1.0", 0, 1
RefValues == {<<0, 0, None>>, <<0, 0, 0>>, <<0, 0, 1>>, <<1, 0, None>>, IntRef(0), IntRef(1)}

NumRefs(t) == Len(HostIntfRefs(t)) + Len(VlanRefs(t))
Writing == cres = "none" /\ NumRefs(ctopo) < MaxRefs

\* the file has a host_interfaces key
AddHostInterfacesKey ==
    /\ cres = "none" /\ ~ctopo.has_host_interfaces /\ ~ctopo.has_VMs
    /\ ctopo' = [ctopo EXCEPT !.has_host_interfaces = TRUE]
    /\ UNCHANGED <<cres, ovars, wvars, avars>>

\* one more entry of host_interfaces
AddHostInterface(r) ==
    /\ Writing /\ ctopo.has_host_interfaces /\ ~ctopo.has_VMs
    /\ ctopo' = [ctopo EXCEPT !.host_interfaces = Append(@, <<r>>)]
    /\ UNCHANGED <<cres, ovars, wvars, avars>>

\* one more comma separated part of the last entry of host_interfaces
AddHostInterfacePart(r) ==
    /\ Writing /\ ~ctopo.has_VMs /\ ctopo.host_interfaces # << >>
    /\ ctopo' = [ctopo EXCEPT !.host_interfaces[Len(ctopo.host_interfaces)] = Append(@, r)]
    /\ UNCHANGED <<cres, ovars, wvars, avars>>

\* the file has a VMs key
AddVMsKey ==
    /\ cres = "none" /\ ~ctopo.has_VMs
    /\ ctopo' = [ctopo EXCEPT !.has_VMs = TRUE]
    /\ UNCHANGED <<cres, ovars, wvars, avars>>

\* one more VM, with no vlans yet
AddVM ==
    /\ Writing /\ ctopo.has_VMs /\ Len(ctopo.VMs) < NumVMs
    /\ ctopo' = [ctopo EXCEPT !.VMs = Append(@, VM(<< >>, Len(ctopo.VMs)))]
    /\ UNCHANGED <<cres, ovars, wvars, avars>>

\* one more vlan of the last VM
AddVlan(r) ==
    /\ Writing /\ ctopo.VMs # << >>
    /\ ctopo' = [ctopo EXCEPT !.VMs[Len(ctopo.VMs)].vlans = Append(@, r)]
    /\ UNCHANGED <<cres, ovars, wvars, avars>>

\* hostif_exists, vms_exists = check_topo(topo, is_multi_duts)
CheckTopo(is_multi_duts) ==
    /\ cres = "none"
    /\ ctopo' = [ctopo EXCEPT !.multi = is_multi_duts]
    /\ cres' = IF check_topo(ctopo', is_multi_duts).ok THEN "accepted" ELSE "rejected"
    /\ UNCHANGED <<ovars, wvars, avars>>

InitTopo ==
    /\ TopoIdle /\ ShellIdle /\ BatchIdle /\ HelperIdle
    /\ topo = TopoSingle /\ extra = << >> /\ OrchIdle
    /\ PoolIdle

NextTopo ==
    \/ AddHostInterfacesKey
    \/ \E r \in RefValues : AddHostInterface(r)
    \/ \E r \in RefValues : AddHostInterfacePart(r)
    \/ AddVMsKey
    \/ AddVM
    \/ \E r \in RefValues : AddVlan(r)
    \/ \E m \in BOOLEAN : CheckTopo(m)

SpecTopo == InitTopo /\ [][NextTopo]_vars

\* all the references of a topology, host interfaces first
AllRefs(t) == HostIntfRefs(t) \o VlanRefs(t)

\* C10: in a topology check_topo accepts, no two references (of host
\* interfaces or of vlans of VMs) name the same (dut index, vlan index) port,
\* with or without a '@<ptf>' suffix on either of them.
C10_AcceptedPortsUnique ==
    cres = "accepted" =>
        \A i, j \in 1..Len(AllRefs(ctopo)) :
            i # j => DutPortOf(AllRefs(ctopo)[i]) # DutPortOf(AllRefs(ctopo)[j])
(***************************************************************************)
(* VMTopologyWorker.map over the arguments bind_fp_ports builds.  The pool *)
(* is multiprocessing.pool.ThreadPool under Python 2 and                   *)
(* concurrent.futures.ThreadPoolExecutor otherwise (37-40).  A task is     *)
(* _buffer_logs_helper around bind_ovs_ports, in two steps: the commands   *)
(* that move and attach the ports, then those that install the flows.      *)
(***************************************************************************)
MaxTasks == 2
\* the largest thread_worker_count
MaxWorkers == 2
PoolModes == {"sequential", "ThreadPool", "ThreadPoolExecutor"}

\* single DUT, host interface 0, K vlans 1..K over the VMs, max_fp_num a VM
TopoPool(K) ==
    Topo(FALSE, << <<IntRef(0)>> >>, {},
         [v \in 1..((K + max_fp_num - 1) \div max_fp_num) |->
             VM([i \in 1..Min({max_fp_num, K - (v - 1) * max_fp_num}) |->
                    IntRef((v - 1) * max_fp_num + i)], v - 1)])

\* the host when bind reaches bind_fp_ports, after create
BeforeBindFp(t) ==
    LET prog == Program("bind", t)
        n == CHOOSE i \in 1..Len(prog) : prog[i] = "bind_fp_ports"
    IN RunFrom(SubSeq(prog, 1, n - 1), 1, create_bridges(CleanHost).h, t, << >>).h

\* the VMs of some items are not running: their tap devices do not exist
WithoutTaps(h, names) == [h EXCEPT !.ifs = {i \in @ : i.name \notin names}]

\* bind_ovs_ports_args of bind_fp_ports (915-930)
PoolArgs(t, disconnect_vm) ==
    [k \in 1..Len(VlanItems(t)) |->
        [bind_ovs_ports_args(VlanItems(t)[k]) EXCEPT !.disconnect_vm = disconnect_vm]]

Pooled == wmode # "sequential"
\* the worker threads of ThreadPool(thread_worker_count), or the thread of
\* main() when there is no pool
Threads == IF Pooled THEN DOMAIN wbuf ELSE {0}
Active == {"started", "attached", "finishing"}
Busy(th) == \E k \in DOMAIN wstate : wstate[k].thread = th /\ wstate[k].st \in Active

\* a log record: the task that emitted it and what it says
Rec(k, what) == <<k, what>>

\* logging.debug on thread th: the root logger has the ThreadBufferHandler
\* (emit, 2088-2094: into the MemoryHandler of the thread) or the target
Emit(th, recs) ==
    IF wattached
    THEN wbuf' = [wbuf EXCEPT ![th] = @ \o recs] /\ wlog' = wlog
    ELSE wlog' = wlog \o recs /\ wbuf' = wbuf

\* what list(self._map_helper(...)) does in the calling thread (2174):
\* builtin map raises at the failing item; ThreadPool.map of Python 2 is
\* ready at the first failed task; the result iterator of the executor
\* takes the results in item order and raises at the first failed one
PoolResultSwallow(kind, st) ==
    IF \A k \in DOMAIN st : st[k].st \in {"done", "failed"} THEN "returned" ELSE "running"

PoolResult(kind, st) ==
    IF kind = "ThreadPoolExecutor"
    THEN IF \E i \in DOMAIN st : st[i].st = "failed" /\ \A j \in 1..(i - 1) : st[j].st = "done"
         THEN "raised"
         ELSE IF \A k \in DOMAIN st : st[k].st = "done" THEN "returned" ELSE "running"
    ELSE IF \E k \in DOMAIN st : st[k].st = "failed" THEN "raised"
         ELSE IF \A k \in DOMAIN st : st[k].st = "done" THEN "returned" ELSE "running"

InitPool ==
    /\ TopoIdle /\ ShellIdle /\ BatchIdle /\ HelperIdle
    /\ topo = TopoSingle /\ extra = << >> /\ OrchIdle
    /\ wmode \in PoolModes
    /\ \E K \in 1..MaxTasks, disconnect_vm \in BOOLEAN :
          /\ wtasks = PoolArgs(TopoPool(K), disconnect_vm)
          /\ \E missing \in SUBSET (1..K) :
                whost0 = WithoutTaps(BeforeBindFp(TopoPool(K)),
                                     {wtasks[k].vm_iface : k \in missing})
    /\ whost = whost0
    /\ wstate = [k \in DOMAIN wtasks |-> [st |-> "queued", ok |-> TRUE, thread |-> 0]]
    /\ wraised = "idle"
    /\ wlog = << >>
    /\ \E thread_worker_count \in 1..MaxWorkers :
          wbuf = [th \in 1..(IF Pooled THEN thread_worker_count ELSE 1) |-> << >>]
    /\ wattached = FALSE
    /\ wpool = NewPool

\* map is called: the thread buffer handler replaces its target (2168-2172)
Map ==
    /\ wraised = "idle"
    /\ wraised' = "running"
    /\ wattached' = Pooled
    /\ UNCHANGED <<wmode, wtasks, wstate, whost, whost0, wlog, wbuf, wpool, ovars, tvars, avars>>

\* an idle thread takes the next item and logs the start of the task
\* (2154-2157); idle worker threads are interchangeable, the lowest takes it
Start(k, th) ==
    /\ wstate[k].st = "queued"
    /\ \A j \in 1..(k - 1) : wstate[j].st # "queued"
    /\ th \in Threads /\ ~Busy(th)
    /\ \A u \in Threads : u < th => Busy(u)
    /\ IF Pooled THEN wraised # "idle"
       ELSE wraised = "running" /\ \A j \in 1..(k - 1) : wstate[j].st = "done"
    /\ wstate' = [wstate EXCEPT ![k].st = "started", ![k].thread = th]
    /\ Emit(th, IF Pooled THEN <<Rec(k, "separator"), Rec(k, "start")>> ELSE << >>)
    /\ UNCHANGED <<wmode, wtasks, wraised, whost, whost0, wattached, wpool, ovars, tvars, avars>>

\* the records of the finally block (2161-2164)
FinishRecs(k) == IF Pooled THEN <<Rec(k, "finish"), Rec(k, "separator")>> ELSE << >>

\* bind_ovs_ports, first half; an exception goes to the finally block
Attach(k) ==
    /\ wstate[k].st = "started"
    /\ LET a == wtasks[k]
           r == AttachOvsPorts(whost, a.br_name, a.dut_iface, a.injected_iface, a.vm_iface)
       IN /\ whost' = r.h
          /\ wstate' = [wstate EXCEPT ![k].st = IF r.ok THEN "attached" ELSE "finishing",
                                      ![k].ok = r.ok]
          /\ Emit(wstate[k].thread,
                  <<Rec(k, "cmd")>> \o (IF r.ok THEN << >> ELSE FinishRecs(k)))
    /\ UNCHANGED <<wmode, wtasks, wraised, whost0, wattached, wpool, ovars, tvars, avars>>

\* bind_ovs_ports, second half, and the finally block
Install(k) ==
    /\ wstate[k].st = "attached"
    /\ LET a == wtasks[k]
           r == InstallFlows(whost, a.br_name, a.dut_iface, a.injected_iface, a.vm_iface,
                             a.disconnect_vm)
       IN /\ whost' = r.h
          /\ wstate' = [wstate EXCEPT ![k].st = "finishing", ![k].ok = r.ok]
          /\ Emit(wstate[k].thread, <<Rec(k, "cmd")>> \o FinishRecs(k))
    /\ UNCHANGED <<wmode, wtasks, wraised, whost0, wattached, wpool, ovars, tvars, avars>>

\* flush_current_thread_logs (2084-2086): MemoryHandler.flush hands the
\* records of the buffer to the target one by one
FlushRecord(k) ==
    /\ Pooled /\ wstate[k].st = "finishing"
    /\ wbuf[wstate[k].thread] # << >>
    /\ wlog' = Append(wlog, Head(wbuf[wstate[k].thread]))
    /\ wbuf' = [wbuf EXCEPT ![wstate[k].thread] = Tail(@)]
    /\ UNCHANGED <<wmode, wtasks, wstate, wraised, whost, whost0, wattached, wpool, ovars, tvars, avars>>

\* the task returns or raises in its thread
Complete(k) ==
    /\ wstate[k].st = "finishing"
    /\ Pooled => wbuf[wstate[k].thread] = << >>
    /\ wstate' = [wstate EXCEPT ![k].st = IF wstate[k].ok THEN "done" ELSE "failed"]
    /\ UNCHANGED <<wmode, wtasks, wraised, whost, whost0, wlog, wbuf, wattached, wpool, ovars, tvars, avars>>

\* map returns the list; the target handler is put back (2175-2178)
Return ==
    /\ wraised = "running"
    /\ PoolResult(wmode, wstate) = "returned"
    /\ wraised' = "returned"
    /\ wattached' = FALSE
    /\ UNCHANGED <<wmode, wtasks, wstate, whost, whost0, wlog, wbuf, wpool, ovars, tvars, avars>>

\* a map without the finally clause: the exception leaves with the
\* buffering handler still in the list
RaiseLeavesHandler ==
    /\ wraised = "running"
    /\ PoolResult(wmode, wstate) = "raised"
    /\ wraised' = "raised"
    /\ wstate' = [k \in DOMAIN wstate |->
                    IF wmode = "ThreadPoolExecutor" /\ wstate[k].st = "queued"
                    THEN [wstate[k] EXCEPT !.st = "cancelled"] ELSE wstate[k]]
    /\ UNCHANGED <<wmode, wtasks, whost, whost0, wlog, wbuf, wattached, wpool, ovars, tvars, avars>>

\* map raises; the result iterator of the executor cancels the futures that
\* have not started; the target handler is put back (2175-2178)
Raise ==
    /\ wraised = "running"
    /\ PoolResult(wmode, wstate) = "raised"
    /\ wraised' = "raised"
    /\ wattached' = FALSE
    /\ wstate' = [k \in DOMAIN wstate |->
                    IF wmode = "ThreadPoolExecutor" /\ wstate[k].st = "queued"
                    THEN [wstate[k] EXCEPT !.st = "cancelled"] ELSE wstate[k]]
    /\ UNCHANGED <<wmode, wtasks, whost, whost0, wlog, wbuf, wpool, ovars, tvars, avars>>

\* what the threads of the tasks do, and how the map call ends
TaskStep ==
    \/ \E k \in DOMAIN wstate, th \in Threads : Start(k, th)
    \/ \E k \in DOMAIN wstate : Attach(k)
    \/ \E k \in DOMAIN wstate : Install(k)
    \/ \E k \in DOMAIN wstate : FlushRecord(k)
    \/ \E k \in DOMAIN wstate : Complete(k)

NextPool == Map \/ TaskStep \/ Return \/ Raise

SpecPool == InitPool /\ [][NextPool]_vars
(***************************************************************************)
(* Properties of the worker pool.                                          *)
(***************************************************************************)
\* the items one after another on the host map was called on, stopping at
\* the first exception
SequentialMap ==
    ForEach(wtasks, Ok(whost0),
            LAMBDA a, g : bind_ovs_ports(g, a.br_name, a.dut_iface, a.injected_iface,
                                         a.vm_iface, a.disconnect_vm))

\* the flow table of every front panel bridge
FlowTables(h) == [b \in DOMAIN h.ovs |-> h.ovs[b].flows]

\* the records of task k are one block of the log
Contiguous(log, k) ==
    \A i, j, l \in 1..Len(log) :
        (i < j /\ j < l /\ log[i][1] = k /\ log[l][1] = k) => log[j][1] = k

\* C6: when the pooled map over independent bind_ovs_ports tasks returns,
\* whatever the interleaving, no task has failed and every bridge has the
\* flow table that running the tasks one after another gives it; when a
\* task fails, map does not return: the bind_fp_ports call fails.
C6_PooledEqualsSequential ==
    Pooled =>
        /\ wraised = "returned" =>
              /\ \A k \in DOMAIN wstate : wstate[k].st = "done"
              /\ SequentialMap.ok
              /\ FlowTables(whost) = FlowTables(SequentialMap.h)
        /\ (\E k \in DOMAIN wstate : wstate[k].st = "failed") => wraised # "returned"

\* two tasks ran at the same time on two threads (their records are mixed
\* in the log) and map has returned
C6_Witness ==
    /\ Pooled /\ wraised = "returned"
    /\ Len(wtasks) = MaxTasks
    /\ \E k \in DOMAIN wstate : ~Contiguous(wlog, k)
    /\ \A k \in DOMAIN wtasks : whost.ovs[wtasks[k].br_name].flows # {}

\* C7: map, sequential or pooled, returns only when every item is done, and
\* when it raises no task it has dispatched is still running.
C7_RaisesAfterAllFinished ==
    /\ wraised = "returned" => \A k \in DOMAIN wstate : wstate[k].st = "done"
    /\ wraised = "raised" => \A k \in DOMAIN wstate : wstate[k].st \notin Active

\* C8: in a pooled map that has not raised, the records of a completed task
\* are one contiguous block of the target's output: no record of a task of
\* another thread lies between its first and its last record.
C8_TaskRecordsContiguous ==
    (Pooled /\ wraised \in {"running", "returned"}) =>
        \A k \in DOMAIN wstate : wstate[k].st = "done" => Contiguous(wlog, k)
(***************************************************************************)
(* Idempotence of the fabric operations.                                   *)
(***************************************************************************)
\* the host has exactly one bridge of the name, and it is up
OneBridgeUp(h, b) ==
    /\ b \in DOMAIN h.ovs
    /\ Cardinality({i \in h.ifs : i.name = b /\ i.at = "root"}) = 1
    /\ The(h, b, "root").up

\* C11: on every host the engine reaches, a second create_ovs_bridge of the
\* same name raises nothing and leaves the host of the first call, with one
\* bridge of that name, up; destroy_ovs_bridge of an absent bridge raises
\* nothing and changes nothing; and so for the create command run twice and
\* the destroy command run on a host without the bridges.
C11_BridgeCreationIdempotent ==
    /\ \A b \in Range(BridgeList) :
          LET r1 == create_ovs_bridge(host, b)
              r2 == create_ovs_bridge(r1.h, b)
          IN r1.ok => (r2.ok /\ r2.h = r1.h /\ OneBridgeUp(r2.h, b))
    /\ \A b \in Range(BridgeList) :
          (b \notin DOMAIN host.ovs) => destroy_ovs_bridge(host, b) = Ok(host)
    /\ (cmd = "create" /\ result \in {"ok", "failed"} /\ prev.cmd = "create" /\ prev.result = "ok")
          => (result = "ok" /\ host = host0 /\ \A b \in Range(BridgeList) : OneBridgeUp(host, b))
    /\ (cmd = "destroy" /\ result \in {"ok", "failed"}
        /\ \A b \in Range(BridgeList) : b \notin DOMAIN host0.ovs)
          => (result = "ok" /\ host = host0)

\* the create command has run twice in a row
C11_Witness ==
    /\ cmd = "create" /\ result = "ok" /\ prev.cmd = "create" /\ prev.result = "ok"
    /\ \A b \in Range(BridgeList) : OneBridgeUp(host, b)
\* the names of the interfaces of the root namespace
RootNames(h) == {i.name : i \in {j \in h.ifs : j.at = "root"}}

\* the (ext_if, int_if) pairs add_injected_fp_ports_to_docker and
\* _add_host_port hand to add_veth_if_to_docker on topology t
DockerVethPairs(t) ==
    {<<INJECTED_INTERFACES(parse_vm_vlan_port(it.vlan).ptf_index),
       PTF_FP_IFACE(parse_vm_vlan_port(it.vlan).ptf_index)>> :
          it \in {x \in Range(VlanItems(t)) : parse_vm_vlan_port(x.vlan).ok}}
    \cup
    {<<IF it.intf \in t.host_interfaces_active_active
       THEN ACTIVE_ACTIVE_INTERFACES(host_ifindex(it.intf, it.i))
       ELSE MUXY_INTERFACES(host_ifindex(it.intf, it.i)),
       PTF_FP_IFACE(host_ifindex(it.intf, it.i))>> :
          it \in {x \in Range(HostItems(t)) : t.multi /\ IsDual(x.intf)}}

\* the pairs _add_host_port hands to add_veth_if_to_netns on topology t
NetnsVethPairs(t) ==
    {<<SERVER_NIC_INTERFACE(host_ifindex(it.intf, it.i)), NETNS_IFACE(host_ifindex(it.intf, it.i))>> :
          it \in {x \in Range(HostItems(t)) :
                     t.multi /\ IsDual(x.intf) /\ x.intf \in t.host_interfaces_active_active}}

(***************************************************************************)
(* SpecRetopo: the topology is a parameter of every invocation of the      *)
(* module (main() reads it from the module arguments), so a host bound     *)
(* with one topology can be handed another one by the next invocation.     *)
(* The behaviours start with TopoPrior and change the topology once.       *)
(***************************************************************************)
\* single DUT, host interface 2, vlan 0 of the one VM
TopoPrior == Topo(FALSE, << <<IntRef(2)>> >>, {}, << VM(<<IntRef(0)>>, 0) >>)

InitRetopo ==
    /\ topo = TopoPrior
    /\ extra = << >>
    /\ OrchIdle
    /\ InitOther

\* the next invocation of the module comes with another topology
Retopo ==
    /\ result # "running"
    /\ topo = TopoPrior
    /\ topo' \in Topologies
    /\ UNCHANGED <<extra, host, cmd, pc, item, last, result, rejected, runs, host0, prev,
                   tvars, wvars, avars>>

NextRetopo == Next \/ Retopo

SpecRetopo == InitRetopo /\ [][NextRetopo]_vars

\* C12: on every host the engine reaches, when the final internal interface
\* is already inside its target (the PTF container for add_veth_if_to_docker,
\* the namespace for add_veth_if_to_netns), invoking the veth-pair creation
\* of the topology again leaves no additional interface in the root
\* namespace (no `ip link add` took effect), whatever the state of the
\* external end
C12_VethRecreationAddsNothing ==
    /\ \A p \in DockerVethPairs(topo) :
          intf_exists(host, p[2], PtfPid, FALSE)
             => RootNames(add_veth_if_to_docker(host, PtfPid, p[1], p[2]).h) \subseteq RootNames(host)
    /\ \A p \in NetnsVethPairs(topo) :
          intf_exists(host, p[2], NoPid, TRUE)
             => RootNames(add_veth_if_to_netns(host, p[1], p[2]).h) \subseteq RootNames(host)

(***************************************************************************)
(* SpecCmd: one call of VMTopology.cmd (1744-1821).  A command line is a   *)
(* sequence of words and blanks; shlex.split gives the words.  Every       *)
(* attempt starts the processes again; what they exit with is the          *)
(* environment's choice.                                                   *)
(***************************************************************************)
MaxRetry == 3
ExitCodes == {0, 1, 2}
Outputs == {"", "out"}
Stderrs == {"", "err"}
Blank == " "
CmdLine == <<"ifconfig", Blank, "-a">>
GrepCmd == <<"grep", Blank, "eth0">>

\* shlex.split(s)
shlex_split(s) == SelectSeq(s, LAMBDA w : w # Blank)

\* the exit status is the one negative asks for (1802-1814): the mutant
\* takes zero for the expected status, whatever negative says
ExpectedStatusZero(negative, ret_code) == ret_code = 0
ExpectedStatus(negative, ret_code) == IF negative THEN ret_code # 0 ELSE ret_code = 0

\* 'ret_code=%d, error message="%s". cmd="%s%s"' % (...) (1819-1820)
err_msg(ret_code, err, cmdline_ori, grep_cmd_ori) ==
    [ret_code |-> ret_code, err |-> err,
     cmd |-> cmdline_ori \o (IF grep_cmd_ori # << >> THEN <<Blank, "|", Blank>> \o grep_cmd_ori
                             ELSE << >>)]

InitCmd ==
    /\ \E grep_cmd \in {<< >>, GrepCmd}, retry \in 1..MaxRetry,
          negative \in BOOLEAN, split_cmd \in BOOLEAN, ignore_errors \in BOOLEAN :
          sh = [cmdline_ori |-> CmdLine, grep_cmd_ori |-> grep_cmd, retry |-> retry,
                negative |-> negative, split_cmd |-> split_cmd,
                ignore_errors |-> ignore_errors, cmdline |-> CmdLine,
                attempts |-> << >>, outcome |-> [kind |-> "running"]]
    /\ topo = TopoSingle /\ extra = << >> /\ OrchIdle
    /\ TopoIdle /\ PoolIdle /\ BatchIdle /\ HelperIdle

\* one turn of `for attempt in range(retry)` (1764-1814): the processes run
\* and exit with ret_code, having written out and err; the last process of
\* the pipe gives all three
Attempt(ret_code, out, err) ==
    /\ sh.outcome.kind = "running"
    /\ Len(sh.attempts) < sh.retry
    /\ LET cmdline == IF sh.split_cmd THEN shlex_split(sh.cmdline_ori) ELSE sh.cmdline
           grep_cmd == IF sh.grep_cmd_ori # << >> /\ sh.split_cmd
                       THEN shlex_split(sh.grep_cmd_ori) ELSE sh.grep_cmd_ori
           run == [argv |-> cmdline, grep_argv |-> grep_cmd,
                   ret_code |-> ret_code, out |-> out, err |-> err]
       IN sh' = [sh EXCEPT !.cmdline = cmdline,
                           !.attempts = Append(@, run),
                           !.outcome = IF ExpectedStatus(sh.negative, ret_code)
                                       THEN [kind |-> "return", out |-> out]
                                       ELSE @]
    /\ UNCHANGED <<ovars, tvars, wvars, bt, fn>>

\* after the loop (1816-1821)
AfterLoop ==
    /\ sh.outcome.kind = "running"
    /\ Len(sh.attempts) = sh.retry
    /\ LET l == sh.attempts[Len(sh.attempts)]
       IN sh' = [sh EXCEPT !.outcome =
                    IF sh.ignore_errors THEN [kind |-> "return", out |-> l.out]
                    ELSE [kind |-> "raise",
                          message |-> err_msg(l.ret_code, l.err, sh.cmdline_ori,
                                              sh.grep_cmd_ori)]]
    /\ UNCHANGED <<ovars, tvars, wvars, bt, fn>>

NextCmd ==
    \/ \E ret_code \in ExitCodes, out \in Outputs, err \in Stderrs : Attempt(ret_code, out, err)
    \/ AfterLoop

SpecCmd == InitCmd /\ [][NextCmd]_vars

\* the full command line of the call, as it was given
FullCommand ==
    [argv |-> IF sh.split_cmd THEN <<"ifconfig", "-a">> ELSE CmdLine,
     grep_argv |-> IF sh.grep_cmd_ori = << >> THEN << >>
                   ELSE IF sh.split_cmd THEN <<"grep", "eth0">> ELSE GrepCmd]

\* C13: cmd runs the full command at most retry times; it returns the
\* output of the first attempt whose exit status is the expected one (zero,
\* or non-zero when negative) and makes no attempt after it; when retry
\* attempts have all given the other status and ignore_errors is false it
\* raises an error with the exit code and the stderr of the last attempt and
\* the command line as it was given
C13_CmdRetries ==
    LET n == Len(sh.attempts)
        want(c) == IF sh.negative THEN c # 0 ELSE c = 0
    IN /\ n <= sh.retry
       /\ \A i \in 1..n : /\ sh.attempts[i].argv = FullCommand.argv
                          /\ sh.attempts[i].grep_argv = FullCommand.grep_argv
       /\ \A i \in 1..n : want(sh.attempts[i].ret_code) => i = n
       /\ (n > 0 /\ want(sh.attempts[n].ret_code))
             => sh.outcome = [kind |-> "return", out |-> sh.attempts[n].out]
       /\ (sh.outcome.kind = "running") => \A i \in 1..n : ~want(sh.attempts[i].ret_code)
       /\ (sh.outcome.kind = "raise")
             => /\ n = sh.retry /\ ~sh.ignore_errors
                /\ \A i \in 1..n : ~want(sh.attempts[i].ret_code)
                /\ sh.outcome.message.ret_code = sh.attempts[n].ret_code
                /\ sh.outcome.message.err = sh.attempts[n].err
                /\ SubSeq(sh.outcome.message.cmd, 1, Len(CmdLine)) = CmdLine
       /\ (sh.outcome.kind = "return" /\ ~sh.ignore_errors) => want(sh.attempts[n].ret_code)

\* retry attempts have failed and the error has been raised, after a retry
C13_Witness ==
    /\ sh.outcome.kind = "raise" /\ Len(sh.attempts) > 1 /\ sh.negative
    /\ sh.outcome.message.ret_code = 0

(***************************************************************************)
(* SpecUnbind: the unbind command on a host nothing is bound on, for the   *)
(* sample topologies and for topologies with VM_LINKs and OVS_LINKs.       *)
(***************************************************************************)
Link(k, use_ovs, vlans) ==
    [k |-> k, start_vm_offset |-> 0, start_vm_port_idx |-> 1,
     end_vm_offset |-> 1, end_vm_port_idx |-> 1, use_ovs |-> use_ovs, vlans |-> vlans]

\* TopoSingle with VM_LINKs {"0": {... 'use_ovs' absent}, "1": {... 'use_ovs': 1}}
TopoVmLink == TopoSingle @@ [VM_LINKs |-> <<Link(0, 0, << >>), Link(1, 1, << >>)>>]
\* TopoSingle with VM_LINKs {"0": {...}}: one link between the second ports of the VMs
TopoVmLinkOne == TopoSingle @@ [VM_LINKs |-> <<Link(0, 0, << >>)>>]
\* TopoSingle with OVS_LINKs {"0": {... 'vlans': [3]}}
TopoOvsLink == TopoSingle @@ [OVS_LINKs |-> <<Link(0, 0, <<IntRef(3)>>)>>]

InitUnbind ==
    /\ topo \in Topologies \cup {TopoVmLink, TopoOvsLink}
    /\ extra = << >>
    /\ OrchIdle
    /\ InitOther

NextUnbind == Invoke("unbind") \/ Step

SpecUnbind == InitUnbind /\ [][NextUnbind]_vars

\* C14: an unbind of a topology the validation accepts that starts on the
\* clean host does not fail and leaves the host as it was at every one of
\* its calls: no bridge, interface or namespace is created or removed
C14_UnbindOnCleanHostIsNoop ==
    (cmd = "unbind" /\ host0 = CleanHost /\ ~rejected)
       => (result # "failed" /\ host = CleanHost)


(***************************************************************************)
(* SpecBatch: one batch-mode pass of bind_fp_ports / unbind_fp_ports       *)
(* (931-934, 981-983): worker.map runs the tasks inside                    *)
(* `with safe_subprocess_manager() as [processes, tmpdir]` (2189-2222).    *)
(* A task puts its background process on the list (fire_and_forget), has   *)
(* nothing to run, or raises.  When a process exits, and with what, is the *)
(* environment's choice, as is whether it is still running when the join   *)
(* timeout ends.                                                           *)
(***************************************************************************)
MaxBatch == 3
TaskKinds == {"launch", "nothing", "raise"}
BatchTasks == UNION {[1..n -> TaskKinds] : n \in 1..MaxBatch}

InitBatch ==
    /\ \E major \in {2, 3}, tasks \in BatchTasks :
          bt = [NoBatch EXCEPT !.major = major, !.tasks = tasks, !.phase = "body"]
    /\ topo = TopoSingle /\ extra = << >> /\ OrchIdle
    /\ TopoIdle /\ PoolIdle /\ ShellIdle /\ HelperIdle

\* an exception leaves the generator at its yield or after it: nothing
\* below the raising line runs (the manager has no try/finally)
BatchRaise(b, error) == [b EXCEPT !.phase = "done", !.outcome = "raised", !.error = error]

\* worker.map calls the next task: bind_ovs_ports / unbind_ovs_ports with
\* processes=processes (1254-1261, 1280-1283)
RunTask ==
    /\ bt.phase = "body" /\ bt.done < Len(bt.tasks)
    /\ LET k == bt.done + 1
           kind == bt.tasks[k]
       IN bt' = IF kind = "raise" THEN BatchRaise(bt, [kind |-> "task", cmd |-> k])
                ELSE [bt EXCEPT !.done = k,
                                !.processes =
                                    IF kind = "launch"
                                    THEN Append(@, [args |-> k, state |-> "running",
                                                    returncode |-> None, joined |-> FALSE])
                                    ELSE @]
    /\ UNCHANGED <<ovars, tvars, wvars, sh, fn>>

\* the with-body has ended without an exception: the code after the yield
EndBody ==
    /\ bt.phase = "body" /\ bt.done = Len(bt.tasks)
    /\ bt' = [bt EXCEPT !.phase = "join", !.i = 1]
    /\ UNCHANGED <<ovars, tvars, wvars, sh, fn>>

\* a background process ends by itself
Exit(p, code) ==
    /\ bt.phase \in {"body", "join"}
    /\ p \in 1..Len(bt.processes) /\ bt.processes[p].state = "running"
    /\ bt' = [bt EXCEPT !.processes[p].state = "exited", !.processes[p].returncode = code]
    /\ UNCHANGED <<ovars, tvars, wvars, sh, fn>>

\* `for process in processes` (2198-2215): the process has ended;
\* communicate() reaps it and a non-zero return code gives an err_msg
Join ==
    /\ bt.phase = "join" /\ bt.i <= Len(bt.processes)
    /\ bt.processes[bt.i].state = "exited"
    /\ LET q == bt.processes[bt.i]
       IN bt' = [bt EXCEPT !.processes[bt.i].joined = TRUE,
                           !.i = @ + 1,
                           !.err_msgs = IF q.returncode # 0
                                        THEN Append(@, [return_code |-> q.returncode,
                                                        cmd |-> q.args])
                                        ELSE @]
    /\ UNCHANGED <<ovars, tvars, wvars, sh, fn>>

\* the process is still running when the timeout ends.  Python 2
\* (2199-2207): kill, communicate, raise.  Python 3 (2209):
\* communicate(timeout=timeout) raises TimeoutExpired and leaves the process
JoinTimeout ==
    /\ bt.phase = "join" /\ bt.i <= Len(bt.processes)
    /\ bt.processes[bt.i].state = "running"
    /\ bt' = IF bt.major < 3
             THEN BatchRaise([bt EXCEPT !.processes[bt.i].state = "killed",
                                        !.processes[bt.i].returncode = -9,
                                        !.processes[bt.i].joined = TRUE],
                             [kind |-> "timeout", cmd |-> None])
             ELSE BatchRaise(bt, [kind |-> "TimeoutExpired", cmd |-> bt.processes[bt.i].args])
    /\ UNCHANGED <<ovars, tvars, wvars, sh, fn>>

\* after the loop (2217-2220): rmtree, then one exception when there is an
\* err_msg; its text carries err_msg, the variable the loop assigned last
AfterJoin ==
    /\ bt.phase = "join" /\ bt.i > Len(bt.processes)
    /\ bt' = IF Len(bt.err_msgs) > 0
             THEN BatchRaise(bt, [kind |-> "One of the batch commands failed",
                                  error |-> bt.err_msgs[Len(bt.err_msgs)]])
             ELSE [bt EXCEPT !.phase = "done", !.outcome = "ok"]
    /\ UNCHANGED <<ovars, tvars, wvars, sh, fn>>

NextBatch ==
    \/ RunTask
    \/ EndBody
    \/ \E p \in 1..MaxBatch, code \in {0, 1} : Exit(p, code)
    \/ Join
    \/ JoinTimeout
    \/ AfterJoin

SpecBatch == InitBatch /\ [][NextBatch]_vars

\* the pass has reported: worker.map or the manager has raised, or the
\* with-statement has ended
Reported == bt.outcome # "none"

\* C15: when a batch-mode pass reports, every background process it
\* launched has been joined, also when a process or a pooled task has
\* failed; and when a process has ended with a non-zero code the pass has
\* failed with the one aggregate error, which names a failing command
C15_AllJoinedBeforeReport ==
    Reported =>
       /\ \A p \in 1..Len(bt.processes) : bt.processes[p].joined
       /\ (\E p \in 1..Len(bt.processes) : bt.processes[p].returncode > 0)
             => /\ bt.outcome = "raised"
                /\ bt.error.kind = "One of the batch commands failed"
                /\ \E p \in 1..Len(bt.processes) :
                      /\ bt.processes[p].returncode > 0
                      /\ bt.error.error.cmd = bt.processes[p].args

\* C16: when a process has not ended within the join timeout the pass
\* raises and the process has been killed, and once the pass has reported
\* no background process is running
C16_NoProcessLeftRunning ==
    Reported =>
       /\ \A p \in 1..Len(bt.processes) : bt.processes[p].state # "running"
       /\ (bt.outcome = "raised" /\ bt.error.kind \in {"timeout", "TimeoutExpired"})
             => bt.processes[bt.i].state = "killed"

(***************************************************************************)
(* Properties of the dual-ToR cable bridges.                               *)
(***************************************************************************)
\* the host interfaces of the topology _add_host_port makes a cable for
DualItems(t) == {x \in Range(HostItems(t)) : t.multi /\ IsDual(x.intf)}

\* the bridge of the cable of a dual host interface and the OpenFlow numbers
\* of its host-facing, upper and lower port
Cable(h, t, x) ==
    LET hi == host_ifindex(x.intf, x.i)
        is_active_active == x.intf \in t.host_interfaces_active_active
        b == h.ovs[IF is_active_active THEN ACTIVE_ACTIVE_BRIDGE(hi) ELSE MUXY_BRIDGE(hi)]
    IN [flows |-> b.flows,
        host |-> b.ports[IF is_active_active THEN ACTIVE_ACTIVE_INTERFACES(hi)
                         ELSE MUXY_INTERFACES(hi)],
        upper |-> b.ports[fp_port(x.intf[1][1], x.intf[1][2])],
        lower |-> b.ports[fp_port(x.intf[2][1], x.intf[2][2])]]

\* the cable forwards host traffic to both ToRs and takes traffic back from
\* exactly one of them
CableForwards(c) ==
    \A pkt \in Packets :
       /\ Output(c.flows, c.host, pkt) = {c.upper, c.lower}
       /\ \E active \in {c.upper, c.lower} :
             /\ Output(c.flows, active, pkt) = {c.host}
             /\ \A other \in {c.upper, c.lower} \ {active} : Output(c.flows, other, pkt) = {}

\* add_host_ports has returned in a bind or a renumber that succeeded
CablesCreated == cmd \in {"bind", "renumber"} /\ result = "ok" /\ DualItems(topo) # {}

\* C17: after create_dualtor_cable for a dual host interface, mux or
\* active-active, the bridge forwards what enters on the host-facing port to
\* the upper and the lower port, and exactly one of the two has a flow back
\* to the host-facing port
C17_DualtorCableForwards ==
    CablesCreated => \A x \in DualItems(topo) : CableForwards(Cable(host, topo, x))

(***************************************************************************)
(* SpecOptions: the commands with the optional parameters of an            *)
(* invocation: a KVM virtual chassis (is_vs_chassis) with VMs declared,    *)
(* and device interconnect links on an active-active topology.             *)
(***************************************************************************)
TopoVsChassis == TopoMulti @@ [is_vs_chassis |-> TRUE]
TopoVsChassisSingle == TopoSingle @@ [is_vs_chassis |-> TRUE]
\* devices_interconnect_interfaces {1: ["0.1@1", "1.1@1"]}
TopoInterconnect ==
    TopoActiveActive @@ [devices_interconnect_interfaces |->
                            <<[link_index |-> 1, vlans |-> << <<0, 1, 1>>, <<1, 1, 1>> >>]>>]

InitOptions ==
    /\ topo \in {TopoVsChassis, TopoVsChassisSingle, TopoInterconnect, TopoVmLinkOne, TopoOvsLink}
    /\ extra = << >>
    /\ OrchIdle
    /\ InitOther

SpecOptions == InitOptions /\ [][Next]_vars

\* C18: a renumber of a topology bind has accepted and bound, virtual
\* chassis with VMs included, does not end in a failure: all its calls, the
\* unbinding of the front-panel and of the virtual-chassis ports and the
\* bind sequence after them, are made and the result is a success
C18_RenumberSucceeds ==
    (cmd = "renumber" /\ prev.cmd = "bind" /\ prev.result = "ok")
       => /\ ~rejected /\ result \in {"running", "ok"}
          /\ result = "ok" => pc = Len(Program("renumber", topo))

(***************************************************************************)
(* C19: in every bind run the calls come in this order: the front-panel    *)
(* veth injection before the front-panel port binding; namespace creation, *)
(* ARP hardening, namespace management port and loopback before the        *)
(* host-facing ports are attached; the host-facing ports before the        *)
(* policy-based source routing; the device-interconnect wiring last.  A    *)
(* step of bind installs an ip rule or a table route only for a namespace  *)
(* interface that exists before the step.                                  *)
(***************************************************************************)
NetnsSetUp == {"add_network_namespace", "enable_arp_filter_netns",
               "add_mgmt_port_to_netns", "enable_netns_loopback"}

BindCallsInOrder ==
    LET prog == Program("bind", topo)
        done == {prog[i] : i \in 1..pc}
        call == prog[pc + 1]
    IN /\ call = "bind_fp_ports" => "add_injected_fp_ports_to_docker" \in done
       /\ (call = "add_host_ports" /\ net_netns(topo)) => NetnsSetUp \subseteq done
       /\ (call = "setup_netns_source_routing" /\ topo.has_host_interfaces)
             => "add_host_ports" \in done
       /\ call = "bind_devices_interconnect" => pc + 1 = Len(prog)
       /\ "bind_devices_interconnect" \notin done

C19_BindOrder ==
    [][(cmd = "bind" /\ result = "running")
         => /\ BindCallsInOrder
            /\ \A r \in host'.rules \ host.rules : intf_exists(host, r[2], NoPid, TRUE)
            /\ \A r \in host'.troutes \ host.troutes : intf_exists(host, r[1], NoPid, TRUE)]_vars

C19_Witness ==
    /\ cmd = "bind" /\ result = "ok" /\ topo = TopoInterconnect
    /\ pc = Len(Program("bind", topo))
    /\ host.rules # {} /\ host.troutes # {}
    /\ OVS_INTERCONNECTION_BRIDGE(1) \in DOMAIN host.ovs

(***************************************************************************)
(* C20: connect-vms and disconnect-vms run on a bound topology succeed and *)
(* change nothing but flow tables: the bridges, the ports of every bridge  *)
(* and their numbers, the interfaces of the server, of the PTF container   *)
(* and of the namespace (the veth pairs among them), the addresses, the    *)
(* routes and the rules are after the command what they were before it.    *)
(***************************************************************************)
WithoutFlows(h) == [h EXCEPT !.ovs = [b \in DOMAIN h.ovs |-> [h.ovs[b] EXCEPT !.flows = {}]]]

C20_ConnectDisconnectChangeFlowsOnly ==
    (cmd \in {"connect-vms", "disconnect-vms"} /\ OnBoundTopology /\ result # "running")
    => /\ result = "ok"
       /\ WithoutFlows(host) = WithoutFlows(host0)

C20_Witness ==
    /\ cmd = "disconnect-vms" /\ prev.cmd \in {"bind", "connect-vms"} /\ prev.result = "ok"
    /\ result = "ok"
    /\ FlowTables(host) # FlowTables(host0)
    /\ WithoutFlows(host) = WithoutFlows(host0)


(***************************************************************************)
(* SpecNames: the names adaptive_name derives.  A name is a string; the    *)
(* state holds the last two derivations.                                   *)
(***************************************************************************)
\* the templates given to adaptive_name (146-155)
OVS_FP_BRIDGE_TEMPLATE == "br-%s-%d"
INJECTED_INTERFACES_TEMPLATE == "inje-%s-%d"
MUXY_INTERFACES_TEMPLATE == "muxy-%s-%d"
ACTIVE_ACTIVE_INTERFACES_TEMPLATE == "iaa-%s-%d"
SERVER_NIC_INTERFACE_TEMPLATE == "nic-%s-%d"
MUXY_BRIDGE_TEMPLATE == "mbr-%s-%d"
ACTIVE_ACTIVE_BRIDGE_TEMPLATE == "baa-%s-%d"
AdaptiveTemplates ==
    {OVS_FP_BRIDGE_TEMPLATE, INJECTED_INTERFACES_TEMPLATE, MUXY_INTERFACES_TEMPLATE,
     ACTIVE_ACTIVE_INTERFACES_TEMPLATE, SERVER_NIC_INTERFACE_TEMPLATE, MUXY_BRIDGE_TEMPLATE,
     ACTIVE_ACTIVE_BRIDGE_TEMPLATE}

\* '%d' % n for n >= 0
RECURSIVE FormatInt(_)
FormatInt(n) ==
    LET digit == SubSeq("0123456789", (n % 10) + 1, (n % 10) + 1)
    IN IF n < 10 THEN digit ELSE FormatInt(n \div 10) \o digit

\* s.split('-')[0]
RECURSIVE SplitFirst(_, _)
SplitFirst(s, i) ==
    IF i > Len(s) \/ SubSeq(s, i, i) = "-" THEN SubSeq(s, 1, i - 1) ELSE SplitFirst(s, i + 1)

\* s[:n]: a negative n counts from the end
SliceTo(s, n) ==
    IF n >= 0 THEN SubSeq(s, 1, IF n < Len(s) THEN n ELSE Len(s))
    ELSE SubSeq(s, 1, IF Len(s) + n > 0 THEN Len(s) + n ELSE 0)

MAX_LEN == 15

adaptive_name_untruncated(template, vmhost, index) ==
    SplitFirst(template, 1) \o "-" \o vmhost \o "-" \o FormatInt(index)

\* adaptive_name (194-210); vmhost is its parameter host
adaptive_name(template, vmhost, index) ==
    LET host_index_str == "-" \o vmhost \o "-" \o FormatInt(index)
        leading_len == MAX_LEN - Len(host_index_str)
        leading_characters == SliceTo(SplitFirst(template, 1), leading_len)
    IN leading_characters \o host_index_str

\* the contexts (a vm_set_name is at most VM_SET_NAME_MAX_LEN = 8 characters)
\* and the indexes of the derivations
NameHosts == {"vms7-6", "vms121-1"}
NameIndexes == {21, 121, 1000, 10000, 100000}

NoDerivation == [template |-> "", host |-> "", index |-> 0, name |-> ""]

InitNames ==
    /\ fn = [prev |-> NoDerivation, cur |-> NoDerivation]
    /\ topo = TopoSingle /\ extra = << >>
    /\ OrchIdle /\ TopoIdle /\ PoolIdle /\ ShellIdle /\ BatchIdle

\* one more call of adaptive_name
Derive(template, vmhost, index) ==
    /\ fn' = [prev |-> fn.cur,
              cur |-> [template |-> template, host |-> vmhost, index |-> index,
                       name |-> adaptive_name(template, vmhost, index)]]
    /\ UNCHANGED <<ovars, tvars, wvars, sh, bt>>

NextNames == \E template \in AdaptiveTemplates, vmhost \in NameHosts, index \in NameIndexes :
                Derive(template, vmhost, index)

SpecNames == InitNames /\ [][NextNames]_vars

\* '-<context>-<index>'
Encoding(d) == "-" \o d.host \o "-" \o FormatInt(d.index)
EndsWith(s, t) == Len(t) <= Len(s) /\ SubSeq(s, Len(s) - Len(t) + 1, Len(s)) = t
Derivations == {fn.prev, fn.cur} \ {NoDerivation}

\* C21: for a template, context and index whose '-<context>-<index>' is at
\* most 15 bytes, the derived name is at most 15 bytes, ends with
\* '-<context>-<index>', and what precedes it is the leading token of the
\* template cut to the bytes that remain.
C21_AdaptiveNameBounded ==
    \A d \in Derivations :
        Len(Encoding(d)) <= 15
        => LET token == SplitFirst(d.template, 1)
               room == 15 - Len(Encoding(d))
               keep == IF Len(token) < room THEN Len(token) ELSE room
           IN /\ Len(d.name) <= 15
              /\ EndsWith(d.name, Encoding(d))
              /\ d.name = SubSeq(token, 1, keep) \o Encoding(d)

C21_Witness ==
    /\ fn.prev = [template |-> INJECTED_INTERFACES_TEMPLATE, host |-> "vms7-6", index |-> 21,
                  name |-> "inje-vms7-6-21"]
    /\ fn.cur = [template |-> INJECTED_INTERFACES_TEMPLATE, host |-> "vms121-1", index |-> 121,
                 name |-> "in-vms121-1-121"]


\* C22: the names derived for one context and index from two different
\* templates differ, whatever is cut from the leading token, and the names
\* derived from one template for two different (context, index) pairs differ.
C22_NamesCollisionFree ==
    \A d, e \in Derivations :
        (Len(Encoding(d)) <= 15 /\ Len(Encoding(e)) <= 15
         /\ <<d.template, d.host, d.index>> # <<e.template, e.host, e.index>>
         /\ (d.template = e.template \/ <<d.host, d.index>> = <<e.host, e.index>>))
        => d.name # e.name


(***************************************************************************)
(* SpecTemp: the temporary names adaptive_temporary_interface derives, as  *)
(* strings; the state holds the last two derivations.                      *)
(***************************************************************************)
PTF_NAME_TEMPLATE(vm_set_name) == "ptf_" \o vm_set_name

\* hashlib.md5(s.encode("utf-8")).hexdigest() on the strings the derivations hash
md5_hexdigest(s) ==
    CASE s = "ptf_vms7-6" -> "146d3936923fca4e055145a70d0acfe0"
      [] s = "ptf_vms8-5" -> "1bf9b71d373def1e29a8f9ae352bff11"
      [] s = "ptf_vms43-92" -> "1bf9b79a78f9fd01f07277a962260c0f"
      [] s = "ptf_vms7-6eth11679" -> "048e45a0169daebec0633b44853a778e"
      [] s = "ptf_vms7-6eth20660" -> "048e45486dcd722e697770257c75a3c1"
      [] s = "ptf_vms7-6backplane" -> "0545999ee5e8e0c3d7d38dea4eba4464"
      [] s = "ptf_vms8-5eth11679" -> "3bb4e1a2ac209892c293ee33d15eae59"
      [] s = "ptf_vms8-5eth20660" -> "5a7c1102a8c6a97e62a09f1ee14f5813"
      [] s = "ptf_vms8-5backplane" -> "7b76ad16f8f80026fe4d1419418ed07b"
      [] s = "ptf_vms43-92eth11679" -> "8bdad9ede974e92f52e9a91f722139e1"
      [] s = "ptf_vms43-92eth20660" -> "2257d32a33f5ec03ff78d3ba42959744"
      [] s = "ptf_vms43-92backplane" -> "26a7c11a7ebd04ae7859165f0e80bbf3"

HASH_LEN == 6

\* adaptive_temporary_interface (213-231): the name it returns
t_int_if(vm_set_name, interface_name, reserved_space) ==
    LET max_len == 15 - reserved_space
        t_suffix == "_t"
        ptf_name == PTF_NAME_TEMPLATE(vm_set_name)
    IN IF max_len < HASH_LEN + Len(t_suffix) THEN "ValueError"
       ELSE IF Len(interface_name) <= max_len - Len(t_suffix) - HASH_LEN
       THEN SubSeq(md5_hexdigest(ptf_name), 1, HASH_LEN) \o interface_name \o t_suffix
       ELSE SubSeq(md5_hexdigest(ptf_name \o interface_name), 1, HASH_LEN) \o t_suffix

\* the contexts of the topologies on one server, the final names, and the
\* room a sub-interface suffix takes ('.10')
TempContexts == {"vms7-6", "vms8-5", "vms43-92"}
TempNames == {"eth0", "eth1", "eth11679", "eth20660", "backplane"}
ReservedSpaces == {0, 3}

NoTemp == [vm_set_name |-> "", interface_name |-> "", reserved_space |-> 0, t_int_if |-> ""]

InitTemp ==
    /\ fn = [prev |-> NoTemp, cur |-> NoTemp]
    /\ topo = TopoSingle /\ extra = << >>
    /\ OrchIdle /\ TopoIdle /\ PoolIdle /\ ShellIdle /\ BatchIdle

\* one more call of adaptive_temporary_interface
DeriveTemp(vm_set_name, interface_name, reserved_space) ==
    /\ fn' = [prev |-> fn.cur,
              cur |-> [vm_set_name |-> vm_set_name, interface_name |-> interface_name,
                       reserved_space |-> reserved_space,
                       t_int_if |-> t_int_if(vm_set_name, interface_name, reserved_space)]]
    /\ UNCHANGED <<ovars, tvars, wvars, sh, bt>>

NextTemp == \E c \in TempContexts, n \in TempNames, r \in ReservedSpaces : DeriveTemp(c, n, r)

SpecTemp == InitTemp /\ [][NextTemp]_vars

TempDerivations == {fn.prev, fn.cur} \ {NoTemp}

\* C23: the temporary name is a function of the context and the final name;
\* two different final names under one context get different temporary
\* names, and one final name under two different contexts gets different
\* temporary names.
C23_TemporaryNamesDistinct ==
    \A d, e \in TempDerivations :
        d.reserved_space = e.reserved_space
        => /\ (d.vm_set_name = e.vm_set_name /\ d.interface_name = e.interface_name)
                => d.t_int_if = e.t_int_if
           /\ (d.vm_set_name = e.vm_set_name /\ d.interface_name # e.interface_name)
                => d.t_int_if # e.t_int_if
           /\ (d.vm_set_name # e.vm_set_name /\ d.interface_name = e.interface_name)
                => d.t_int_if # e.t_int_if


(***************************************************************************)
(* SpecParse: parse_vm_vlan_port and the vlan test of check_topo on the    *)
(* text of a port reference.  An input is an int or a str; the state holds *)
(* the numbers the reference was written from, the input and the value.    *)
(***************************************************************************)
CharAt(s, i) == IF i <= Len(s) THEN SubSeq(s, i, i) ELSE ""
IsDigit(c) == c \in {"0", "1", "2", "3", "4", "5", "6", "7", "8", "9"}

\* \d+ from position i: the position after the last digit it takes
RECURSIVE DigitsEnd(_, _)
DigitsEnd(s, i) == IF IsDigit(CharAt(s, i)) THEN DigitsEnd(s, i + 1) ELSE i

\* int(s) of a string of digits
RECURSIVE ParseInt(_)
ParseInt(s) ==
    IF s = "" THEN 0
    ELSE LET c == SubSeq(s, Len(s), Len(s))
             v == CHOOSE n \in 0..9 : SubSeq("0123456789", n + 1, n + 1) = c
         IN 10 * ParseInt(SubSeq(s, 1, Len(s) - 1)) + v

\* re.match(r"(\d+)\.(\d+)@(\d+)", vlan): the groups, or None
re_match_vlan(vlan) ==
    LET a == DigitsEnd(vlan, 1)
        b == DigitsEnd(vlan, a + 1)
        c == DigitsEnd(vlan, b + 1)
    IN IF a > 1 /\ CharAt(vlan, a) = "." /\ b > a + 1 /\ CharAt(vlan, b) = "@" /\ c > b + 1
       THEN [matched |-> TRUE,
             groups |-> <<SubSeq(vlan, 1, a - 1), SubSeq(vlan, a + 1, b - 1),
                          SubSeq(vlan, b + 1, c - 1)>>]
       ELSE [matched |-> FALSE, groups |-> << >>]

\* re.match(r"^\d+\.\d+(@\d+)?$", vlan) of check_topo (1990-1991)
re_match_dut_port(vlan) ==
    LET a == DigitsEnd(vlan, 1)
        b == DigitsEnd(vlan, a + 1)
        c == DigitsEnd(vlan, b + 1)
    IN /\ a > 1 /\ CharAt(vlan, a) = "." /\ b > a + 1
       /\ \/ b = Len(vlan) + 1
          \/ CharAt(vlan, b) = "@" /\ c > b + 1 /\ c = Len(vlan) + 1

IntInput(n) == [type |-> "int", int |-> n, str |-> ""]
StrInput(s) == [type |-> "str", int |-> 0, str |-> s]

parse_vlan_text_swapped(vlan) ==
    IF vlan.type = "int" THEN <<0, vlan.int, vlan.int>>
    ELSE LET m == re_match_vlan(vlan.str)
         IN IF ~m.matched THEN <<"AttributeError">>
            ELSE <<ParseInt(m.groups[1]), ParseInt(m.groups[3]), ParseInt(m.groups[2])>>

\* parse_vm_vlan_port (1911-1929) on the text: (dut_index, vlan_index,
\* ptf_index), or the AttributeError of m.group on None
parse_vlan_text(vlan) ==
    IF vlan.type = "int" THEN <<0, vlan.int, vlan.int>>
    ELSE LET m == re_match_vlan(vlan.str)
         IN IF ~m.matched THEN <<"AttributeError">>
            ELSE <<ParseInt(m.groups[1]), ParseInt(m.groups[2]), ParseInt(m.groups[3])>>

\* the vlan test of check_topo (1988-1999)
vlan_accepted(vlan, is_multi_duts) ==
    IF is_multi_duts THEN vlan.type = "str" /\ re_match_dut_port(vlan.str)
    ELSE vlan.type = "int" /\ vlan.int >= 0

\* the numbers a reference is written from, and the ways of writing it
RefDuts == {0, 1, 12}
RefVlans == {0, 2, 5, 31}
RefPtfs == {0, 3, 5, 120}
RefForms == {"int", "d.v@p", "d.v", "d.v@", "d,v@p"}

WriteRef(form, d, v, p) ==
    CASE form = "int" -> IntInput(v)
      [] form = "d.v@p" -> StrInput(FormatInt(d) \o "." \o FormatInt(v) \o "@" \o FormatInt(p))
      [] form = "d.v" -> StrInput(FormatInt(d) \o "." \o FormatInt(v))
      [] form = "d.v@" -> StrInput(FormatInt(d) \o "." \o FormatInt(v) \o "@")
      [] form = "d,v@p" -> StrInput(FormatInt(d) \o "," \o FormatInt(v) \o "@" \o FormatInt(p))

InitParse ==
    /\ \E form \in RefForms, d \in RefDuts, v \in RefVlans, p \in RefPtfs, m \in BOOLEAN :
          fn = [form |-> form, d |-> d, v |-> v, p |-> p, vlan |-> WriteRef(form, d, v, p),
                is_multi_duts |-> m, accepted |-> "unset", value |-> << >>]
    /\ topo = TopoSingle /\ extra = << >>
    /\ OrchIdle /\ TopoIdle /\ PoolIdle /\ ShellIdle /\ BatchIdle

\* check_topo tests the reference
CheckVlan ==
    /\ fn.accepted = "unset"
    /\ fn' = [fn EXCEPT !.accepted = IF vlan_accepted(fn.vlan, fn.is_multi_duts)
                                     THEN "yes" ELSE "no"]
    /\ UNCHANGED <<ovars, tvars, wvars, sh, bt>>

\* the engine parses the reference the validation has accepted
ParseVlan ==
    /\ fn.accepted = "yes" /\ fn.value = << >>
    /\ fn' = [fn EXCEPT !.value = parse_vlan_text(fn.vlan)]
    /\ UNCHANGED <<ovars, tvars, wvars, sh, bt>>

NextParse == CheckVlan \/ ParseVlan

SpecParse == InitParse /\ [][NextParse]_vars

\* C24: the text '<d>.<v>@<p>' parses to (d, v, p) and the integer n to
\* (0, n, n).
C24_ParseVlanPort ==
    fn.value # << >>
    => /\ fn.form = "d.v@p" => fn.value = <<fn.d, fn.v, fn.p>>
       /\ fn.form = "int" => fn.value = <<0, fn.v, fn.v>>

C24_Witness ==
    /\ fn.vlan = StrInput("12.31@120") /\ fn.value = <<12, 31, 120>>

\* C25: a reference '<d>.<v>' without '@<ptf>' that check_topo accepts
\* parses to (d, v, v).
C25_PtfIndexDefaultsToVlan ==
    (fn.form = "d.v" /\ fn.accepted = "yes" /\ fn.value # << >>)
    => fn.value = <<fn.d, fn.v, fn.v>>


(***************************************************************************)
(* SpecWorker: the life of one VMTopologyWorker: map calls one after the   *)
(* other, and shutdown, called explicitly or by __del__.  The tasks are    *)
(* those of SpecPool, on a pool of one thread (thread_worker_count = 1).   *)
(***************************************************************************)
MaxMaps == 2
MaxShutdowns == 2

FlushAllKeep(log, buf) == [log |-> log \o Flatten(buf), buf |-> buf]

\* ThreadBufferHandler.flush (2096-2100): every MemoryHandler hands its
\* buffer to the target and empties it
FlushAll(log, buf) == [log |-> log \o Flatten(buf), buf |-> [th \in DOMAIN buf |-> << >>]]

InitWorker ==
    /\ TopoIdle /\ ShellIdle /\ BatchIdle /\ HelperIdle
    /\ topo = TopoSingle /\ extra = << >> /\ OrchIdle
    /\ wmode \in PoolModes
    /\ wtasks = PoolArgs(TopoPool(MaxTasks), FALSE)
    /\ \E missing \in SUBSET (1..MaxTasks) :
          whost0 = WithoutTaps(BeforeBindFp(TopoPool(MaxTasks)),
                               {wtasks[k].vm_iface : k \in missing})
    /\ whost = whost0
    /\ wstate = [k \in DOMAIN wtasks |-> [st |-> "queued", ok |-> TRUE, thread |-> 0]]
    /\ wraised = "idle"
    /\ wlog = << >>
    /\ wbuf = [th \in 1..1 |-> << >>]
    /\ wattached = FALSE
    /\ wpool = NewPool

\* no task of an earlier map call is still to run or running
Quiescent ==
    \A k \in DOMAIN wstate : wstate[k].st \notin Active /\ (wstate[k].st = "queued" => wraised = "idle")

\* map is called (2166-2178), for the first time or again once the tasks of
\* the call before have ended.  A pool that is shut down takes no task: the
\* call raises, and its finally block puts the target handler back.
MapCall ==
    /\ wraised # "running" /\ Quiescent
    /\ wpool.maps < MaxMaps
    /\ wpool' = [wpool EXCEPT !.maps = @ + 1]
    /\ IF Pooled /\ wpool.state = "shut"
       THEN /\ wraised' = "raised"
            /\ wstate' = [k \in DOMAIN wtasks |-> [st |-> "cancelled", ok |-> TRUE, thread |-> 0]]
       ELSE /\ wraised' = "running"
            /\ wstate' = [k \in DOMAIN wtasks |-> [st |-> "queued", ok |-> TRUE, thread |-> 0]]
    /\ wattached' = (Pooled /\ wpool.state # "shut")
    /\ whost0' = whost
    /\ UNCHANGED <<wmode, wtasks, whost, wlog, wbuf, ovars, tvars, avars>>

\* shutdown (2180-2184) outside of a map call.  The executor's
\* shutdown(wait=True) returns when the running tasks have ended;
\* ThreadPool.terminate drops the tasks not yet started and leaves the
\* running threads alone.  MemoryHandler.flush holds the lock of its
\* handler, so the flush waits for a task that is flushing.
Shutdown ==
    /\ wraised # "running"
    /\ wpool.shutdowns < MaxShutdowns
    /\ wmode = "ThreadPoolExecutor" => \A k \in DOMAIN wstate : wstate[k].st \notin Active
    /\ \A k \in DOMAIN wstate :
          (Pooled /\ wstate[k].st = "finishing") => wbuf[wstate[k].thread] = << >>
    /\ LET f == IF Pooled THEN FlushAll(wlog, wbuf) ELSE [log |-> wlog, buf |-> wbuf]
       IN wlog' = f.log /\ wbuf' = f.buf
    /\ wstate' = [k \in DOMAIN wstate |->
                    IF Pooled /\ wraised # "idle" /\ wstate[k].st = "queued"
                    THEN [wstate[k] EXCEPT !.st = "cancelled"] ELSE wstate[k]]
    /\ wpool' = [wpool EXCEPT !.state = IF Pooled THEN "shut" ELSE @, !.shutdowns = @ + 1]
    /\ UNCHANGED <<wmode, wtasks, wraised, whost, whost0, wattached, ovars, tvars, avars>>

NextWorker == MapCall \/ TaskStep \/ Return \/ Raise \/ Shutdown

SpecWorker == InitWorker /\ [][NextWorker]_vars

\* C26: a call of shutdown after the first changes nothing: the pool stays
\* shut down, no record reaches the target, no buffer, task or handler
\* changes.
C26_ShutdownIdempotent ==
    [][(wpool'.shutdowns = wpool.shutdowns + 1 /\ wpool.shutdowns >= 1)
         => /\ wpool'.state = wpool.state
            /\ UNCHANGED <<wlog, wbuf, wstate, wraised, whost, wattached>>]_vars

C26_Witness ==
    /\ wmode = "ThreadPool" /\ wpool.shutdowns = 2 /\ wpool.state = "shut"
    /\ wraised = "raised" /\ wlog # << >>


\* C27: the buffering handler is in the root logger's handler list only
\* while a pooled map call is in progress; whenever no map call is in
\* progress (before the first, and after each one returned or raised) the
\* list holds the original target handler and not the buffering handler.
\* wattached is the list: TRUE when the buffering handler has replaced the
\* target (2168-2172), FALSE when the target is in it.
C27_HandlersRestored ==
    /\ wattached => (Pooled /\ wraised = "running")
    /\ wraised \in {"idle", "returned", "raised"} => ~wattached

\* a second pooled map call has raised after the first one ended, and the
\* target handler is back
C27_Witness ==
    /\ Pooled /\ wpool.state = "up" /\ wpool.maps = MaxMaps
    /\ wraised = "raised" /\ ~wattached
    /\ \E k \in DOMAIN wstate : wstate[k].st \in {"failed"}
    /\ wlog # << >>

(***************************************************************************)
(* SpecShare: the pooled map of bind_fp_ports over the topologies that     *)
(* check_topo accepts, among them one whose two vlans name two DUT ports   *)
(* and one PTF index.  The actions are those of SpecPool.                  *)
(***************************************************************************)
\* two DUTs, vlans ["0.2@2"] and ["1.2@2"]: two DUT ports, one PTF index
TopoSamePtf == Topo(TRUE, << << <<0, 0, 0>> >> >>, {},
                    << VM(<< <<0, 2, 2>> >>, 0), VM(<< <<1, 2, 2>> >>, 1) >>)

ShareTopologies ==
    {t \in {TopoPool(MaxTasks), TopoMulti, TopoSamePtf} : check_topo(t, t.multi).ok}

InitShare ==
    /\ TopoIdle /\ ShellIdle /\ BatchIdle /\ HelperIdle
    /\ topo \in ShareTopologies /\ extra = << >> /\ OrchIdle
    /\ wmode \in PoolModes
    /\ wtasks = PoolArgs(topo, FALSE)
    /\ \E missing \in SUBSET (DOMAIN wtasks) :
          whost0 = WithoutTaps(BeforeBindFp(topo), {wtasks[k].vm_iface : k \in missing})
    /\ whost = whost0
    /\ wstate = [k \in DOMAIN wtasks |-> [st |-> "queued", ok |-> TRUE, thread |-> 0]]
    /\ wraised = "idle"
    /\ wlog = << >>
    /\ \E thread_worker_count \in 1..MaxWorkers :
          wbuf = [th \in 1..(IF Pooled THEN thread_worker_count ELSE 1) |-> << >>]
    /\ wattached = FALSE
    /\ wpool = NewPool

SpecShare == InitShare /\ [][NextPool]_vars

\* what bind_ovs_ports(br_name, dut_iface, injected_iface, vm_iface) changes:
\* the bridge, and the three interfaces it attaches to it (1133-1154)
TaskResources(a) == {a.br_name, a.dut_iface, a.injected_iface, a.vm_iface}

\* C28: no two tasks that run at the same time inside one pooled map call
\* change the same bridge or the same named interface.
C28_ConcurrentTasksDisjoint ==
    \A k1, k2 \in DOMAIN wstate :
        (Pooled /\ k1 # k2 /\ wstate[k1].st \in Active /\ wstate[k2].st \in Active)
            => TaskResources(wtasks[k1]) \cap TaskResources(wtasks[k2]) = {}

(***************************************************************************)
(* SpecIntf: intf_exists and intf_not_exists asked about an interface in a *)
(* stated target (the root namespace, the PTF container, the named         *)
(* namespace) on a host that does not change.  The caller passes           *)
(* pid=self.pid, which get_pid (1864-1877) leaves None when the container  *)
(* is not running, or netns=self.netns.                                    *)
(***************************************************************************)
IntfTargets == {"root", "ctn", "ns"}

\* the hosts asked about: nothing set up, and after bind of two topologies
IntfHosts ==
    {CleanHost,
     Run("bind", create_bridges(CleanHost).h, TopoSingle, << >>).h,
     Run("bind", create_bridges(CleanHost).h, TopoActiveActive, << >>).h}

IntfNames == {MGMT_PORT_NAME, PTF_FP_IFACE(0), NETNS_IFACE(1), DutPort(0, 0), MgmtBridge}

\* self.pid (get_pid, 1864-1877)
get_pid(running) == IF running THEN PtfPid ELSE NoPid

InitIntf ==
    /\ TopoIdle /\ PoolIdle /\ ShellIdle /\ BatchIdle
    /\ topo = TopoSingle /\ extra = << >>
    /\ host \in IntfHosts /\ host0 = host
    /\ cmd = "none" /\ pc = 0 /\ item = 0 /\ last = NoCall
    /\ result = "none" /\ rejected = FALSE /\ runs = 0 /\ prev = NoPrev
    /\ \E intf \in IntfNames, target \in IntfTargets, running \in BOOLEAN :
          fn = [intf |-> intf, target |-> target, running |-> running,
                pid |-> IF target = "ctn" THEN get_pid(running) ELSE NoPid,
                netns |-> target = "ns",
                exists |-> "unset", not_exists |-> "unset"]

\* intf_exists(intf, pid=..., netns=...)
IntfExists ==
    /\ fn.exists = "unset"
    /\ fn' = [fn EXCEPT !.exists = IF intf_exists(host, fn.intf, fn.pid, fn.netns)
                                   THEN "True" ELSE "False"]
    /\ UNCHANGED <<ovars, tvars, wvars, sh, bt>>

\* intf_not_exists(intf, pid=..., netns=...)
IntfNotExists ==
    /\ fn.not_exists = "unset"
    /\ fn' = [fn EXCEPT !.not_exists = IF intf_not_exists(host, fn.intf, fn.pid, fn.netns)
                                       THEN "True" ELSE "False"]
    /\ UNCHANGED <<ovars, tvars, wvars, sh, bt>>

NextIntf == IntfExists \/ IntfNotExists

SpecIntf == InitIntf /\ [][NextIntf]_vars

\* the check command can run in the stated target
TargetReachable ==
    CASE fn.target = "root" -> TRUE
      [] fn.target = "ctn" -> fn.running
      [] fn.target = "ns" -> host.netns

\* C29: intf_not_exists returns True only when the check could run in the
\* stated target and the interface is absent from it; intf_exists and
\* intf_not_exists never both return True for one interface and target.
C29_AbsenceNotFailure ==
    /\ fn.not_exists = "True" => (TargetReachable /\ ~Has(host, fn.intf, fn.target))
    /\ ~(fn.exists = "True" /\ fn.not_exists = "True")

(***************************************************************************)
(* SpecSlots: the commands over dual-ToR active-active topologies whose    *)
(* host interface indexes reach the last routing-table slot and pass it.   *)
(***************************************************************************)
\* host_interfaces ["0.0@p,1.0@p"], active-active
TopoSlot(p) ==
    Topo(TRUE, << << <<0, 0, p>>, <<1, 0, p>> >> >>, { << <<0, 0, p>>, <<1, 0, p>> >> },
         << VM(<< <<0, 2, 2>> >>, 0) >>)

\* host_interfaces ["0.0@p,1.0@p", "0.1@q,1.1@q"], both active-active
TopoSlotTwo(p, q) ==
    Topo(TRUE, << << <<0, 0, p>>, <<1, 0, p>> >>, << <<0, 1, q>>, <<1, 1, q>> >> >>,
         { << <<0, 0, p>>, <<1, 0, p>> >>, << <<0, 1, q>>, <<1, 1, q>> >> },
         << VM(<< <<0, 2, 2>> >>, 0) >>)

LastIndex == MaxRtSlot - slot_start_index

InitSlots ==
    /\ topo \in {TopoSlot(0), TopoSlot(LastIndex), TopoSlot(LastIndex + 1),
                 TopoSlotTwo(LastIndex, LastIndex + 1)}
    /\ extra = << >>
    /\ OrchIdle
    /\ InitOther

SpecSlots == InitSlots /\ [][Next]_vars

\* an active-active host interface of t needs a slot above the cap
OverCap(t) ==
    \E n \in 1..Len(HostItems(t)) :
        LET it == HostItems(t)[n]
        IN /\ t.multi /\ IsDual(it.intf) /\ it.intf \in t.host_interfaces_active_active
           /\ slot_start_index + host_ifindex(it.intf, it.i) > MaxRtSlot

\* the slot of the table named after the namespace interface ns_if
SlotOf(ns_if) == slot_start_index + ns_if[2]

\* C30: no table number above 252 is registered or used by a rule or a
\* route, and an invocation that has to set up the routing for a slot above
\* the cap does not get past setup_netns_source_routing and does not end in
\* a success.
C30_SlotCapFatal ==
    /\ \A s \in host.rt_tables : s <= MaxRtSlot
    /\ \A r \in host.rules : SlotOf(r[2]) <= MaxRtSlot
    /\ \A r \in host.troutes : SlotOf(r[1]) <= MaxRtSlot
    /\ (OverCap(topo) /\ cmd \in {"bind", "renumber"} /\ ~rejected)
          => /\ result # "ok"
             /\ \A n \in 1..pc : Program(cmd, topo)[n] # "setup_netns_source_routing"

\* bind has set up the interface of slot 252 and has failed at the interface
\* of slot 253, in setup_netns_source_routing
C30_Witness ==
    /\ topo = TopoSlotTwo(LastIndex, LastIndex + 1)
    /\ cmd = "bind" /\ result = "failed" /\ ~rejected
    /\ Program(cmd, topo)[pc + 1] = "setup_netns_source_routing"
    /\ Has(host, NETNS_IFACE(LastIndex + 1), "ns")
    /\ host.rt_tables = {MaxRtSlot}

(***************************************************************************)
(* SpecVeth: the creation and the removal of the veth pairs, one command   *)
(* of the tools a step, so that the states between two commands of one     *)
(* function are states of the specification.  An operation is one of       *)
(* add_br_if_to_docker / add_br_if_to_netns (570-613),                     *)
(* add_veth_if_to_docker / add_veth_if_to_netns (719-836, no sub-interface *)
(* and the default mtu) and remove_veth_if_from_docker (1544-1558); a      *)
(* command that exits non-zero ends the operation.                         *)
(***************************************************************************)
MaxOps == 3

\* the pairs of the engine: the bridge (for add_br_if_*), the two ends, and
\* whether the internal end goes to the named namespace
VethCase(kind, bridge, ext_if, int_if, netns) ==
    [kind |-> kind, bridge |-> bridge, ext_if |-> ext_if, int_if |-> int_if, netns |-> netns]

VethCases ==
    {VethCase("br", MgmtBridge, PTF_MGMT_IF, MGMT_PORT_NAME, FALSE),
     VethCase("br", ROOT_BACK_BR, PTF_BP_IF, BP_PORT_NAME, FALSE),
     VethCase("br", MgmtBridge, NETNS_MGMT_IF, MGMT_PORT_NAME, TRUE),
     VethCase("veth", NoName, INJECTED_INTERFACES(0), PTF_FP_IFACE(0), FALSE),
     VethCase("veth", NoName, SERVER_NIC_INTERFACE(0), NETNS_IFACE(0), TRUE)}

NoVethOp == [op |-> "none", case |-> VethCase("none", NoName, NoName, NoName, FALSE),
             pid |-> NoPid, step |-> 0, branch |-> FALSE, n |-> 0, raised |-> FALSE]

\* the number of commands of an operation
LastStep(op) == IF op = "remove" THEN 4 ELSE 6

\* command number a.step of the operation a on the host h: the result, and
\* the branch an `if` with more than one command has taken
VethStep(h, a) ==
    LET c == a.case
        pid == a.pid
        to == IF c.netns THEN "ns" ELSE NsOf(pid)
        tmp_int_if == FingerprintName(c.int_if, c.ext_if)
        tmp_if == adaptive_temporary_interface(c.int_if)
        B(r, b) == [ok |-> r.ok, h |-> r.h, branch |-> b]
    IN IF a.op = "add" /\ c.kind = "br" THEN
          CASE a.step = 1 -> B(IF intf_not_exists(h, c.ext_if, NoPid, FALSE)
                               THEN ip_link_add_veth(h, c.ext_if, tmp_int_if) ELSE Ok(h), FALSE)
            [] a.step = 2 -> B(IF c.ext_if \notin brctl_show_ifs(h, c.bridge)
                               THEN brctl_addif(h, c.bridge, c.ext_if) ELSE Ok(h), FALSE)
            [] a.step = 3 -> B(iface_up(h, c.ext_if, NoPid, FALSE), FALSE)
            [] a.step = 4 ->
                   LET cond == intf_exists(h, tmp_int_if, NoPid, FALSE)
                               /\ intf_not_exists(h, tmp_int_if, pid, c.netns)
                   IN B(IF cond THEN ip_link_set_netns(h, tmp_int_if, "root", to) ELSE Ok(h), cond)
            [] a.step = 5 -> B(IF a.branch THEN ip_link_set_name(h, to, tmp_int_if, c.int_if)
                               ELSE Ok(h), FALSE)
            [] OTHER -> B(iface_up(h, c.int_if, pid, c.netns), FALSE)
       ELSE IF a.op = "add" THEN
          CASE a.step = 1 -> B(IF intf_exists(h, tmp_if, NoPid, FALSE)
                               THEN ip_link_del(h, tmp_if) ELSE Ok(h), FALSE)
            [] a.step = 2 -> B(IF intf_not_exists(h, c.ext_if, NoPid, FALSE)
                               THEN ip_link_add_veth(h, c.ext_if, tmp_if) ELSE Ok(h), FALSE)
            [] a.step = 3 -> B(iface_up(h, c.ext_if, NoPid, FALSE), FALSE)
            [] a.step = 4 -> B(IF intf_exists(h, tmp_if, NoPid, FALSE)
                                  /\ intf_not_exists(h, tmp_if, pid, c.netns)
                                  /\ intf_not_exists(h, c.int_if, pid, c.netns)
                               THEN ip_link_set_netns(h, tmp_if, "root", to) ELSE Ok(h), FALSE)
            [] a.step = 5 -> B(IF intf_exists(h, tmp_if, pid, c.netns)
                                  /\ intf_not_exists(h, c.int_if, pid, c.netns)
                               THEN ip_link_set_name(h, to, tmp_if, c.int_if) ELSE Ok(h), FALSE)
            [] OTHER -> B(iface_up(h, c.int_if, pid, c.netns), FALSE)
       ELSE
          CASE a.step = 1 ->
                   LET cond == intf_exists(h, c.int_if, pid, FALSE)
                   IN B(IF cond THEN iface_down(h, c.int_if, pid, FALSE) ELSE Ok(h), cond)
            [] a.step = 2 -> B(IF a.branch THEN ip_link_set_name(h, NsOf(pid), c.int_if, tmp_int_if)
                               ELSE Ok(h), a.branch)
            [] a.step = 3 -> B(IF a.branch THEN ip_link_set_netns(h, tmp_int_if, NsOf(pid), "root")
                               ELSE Ok(h), FALSE)
            [] OTHER -> B(IF intf_exists(h, c.ext_if, NoPid, FALSE)
                          THEN Ok(ip_link_del(h, c.ext_if).h) ELSE Ok(h), FALSE)

InitVeth ==
    /\ TopoIdle /\ PoolIdle /\ ShellIdle /\ BatchIdle
    /\ topo = TopoSingle /\ extra = << >>
    /\ host \in {CleanHost, [CleanHost EXCEPT !.netns = TRUE]} /\ host0 = host
    /\ cmd = "none" /\ pc = 0 /\ item = 0 /\ last = NoCall
    /\ result = "none" /\ rejected = FALSE /\ runs = 0 /\ prev = NoPrev
    /\ fn = NoVethOp

\* the engine starts an operation on a pair; self.pid is the pid of the PTF
\* container or None; only the container has a removal function
BeginVeth(op, c, pid) ==
    /\ fn.op = "none" /\ fn.n < MaxOps
    /\ op = "remove" => ~c.netns
    /\ fn' = [op |-> op, case |-> c, pid |-> pid, step |-> 1, branch |-> FALSE,
              n |-> fn.n + 1, raised |-> FALSE]
    /\ UNCHANGED <<ovars, tvars, wvars, sh, bt>>

\* the next command of the operation
VethCommand ==
    /\ fn.op # "none"
    /\ LET r == VethStep(host, fn)
           over == ~r.ok \/ fn.step = LastStep(fn.op)
       IN /\ host' = r.h
          /\ fn' = IF over THEN [NoVethOp EXCEPT !.n = fn.n, !.raised = ~r.ok]
                   ELSE [fn EXCEPT !.step = @ + 1, !.branch = r.branch]
    /\ UNCHANGED <<topo, extra, cmd, pc, item, last, result, rejected, runs, host0, prev,
                   tvars, wvars, sh, bt>>

NextVeth ==
    \/ \E op \in {"add", "remove"}, c \in VethCases, pid \in {PtfPid, NoPid} : BeginVeth(op, c, pid)
    \/ VethCommand

SpecVeth == InitVeth /\ [][NextVeth]_vars

\* the final logical names of the internal ends: ethN, mgmt, backplane
FinalNames == {"eth", "mgmt", "backplane"}

\* C31: the internal end of a veth pair (the end that is not the one the
\* pair is named after) is in the root namespace only under a temporary
\* name; under its final name ethN, mgmt or backplane it is inside the
\* container or the namespace.
C31_TwoPhaseTransfer ==
    \A i \in host.ifs :
        (i.kind = "veth" /\ i.name # i.pair /\ i.at = "root") => i.name[1] \notin FinalNames

\* the internal end of the injected pair has been created, moved into the
\* container, renamed to eth0, renamed back and is in the root namespace
\* again, the removal not yet finished
C31_Witness ==
    /\ fn.op = "remove" /\ fn.step = 4 /\ fn.branch = FALSE
    /\ fn.case.int_if = PTF_FP_IFACE(0)
    /\ Has(host, FingerprintName(PTF_FP_IFACE(0), INJECTED_INTERFACES(0)), "root")

(***************************************************************************)
(* Properties of the connected flow table (Spec).                          *)
(***************************************************************************)
\* the rules of the table of the last call that match on the DUT-facing port
DutRules == {f \in LastFlows : f.in_port = LastPort(last.dut_iface)}

\* the catch-all among them: no protocol keyword and no other match field
DutCatchAll == {f \in DutRules : f.kw = "" /\ f.m = {}}

ConnectedBindReturned == last.op = "bind_ovs_ports" /\ ~last.disconnect_vm

\* C32: in the table bind_ovs_ports has installed with the VM connected,
\* every rule of the DUT-facing port that names a protocol or a field has a
\* strictly higher priority than the catch-all rule of that port, which
\* outputs to the VM and the PTF port.
C32_SpecificAboveCatchAll ==
    ConnectedBindReturned
    => /\ DutCatchAll # {}
       /\ \A c \in DutCatchAll :
             /\ c.out = {LastPort(last.vm_iface), LastPort(last.injected_iface)}
             /\ \A f \in DutRules \ DutCatchAll : f.priority > c.priority

\* a connected bind has returned and the table has the rules of priority
\* 10, 8, 6 and 5 of the DUT port next to the catch-all
C32_Witness ==
    /\ ConnectedBindReturned
    /\ {f.priority : f \in DutRules \ DutCatchAll} = {10, 8, 6, 5}
    /\ Cardinality(DutRules) > 20


\* C35: in the connected table every packet class that enters on the
\* DUT-facing port is output to the PTF-injected port by the rules of the
\* highest priority that match it.
C35_DutTrafficReachesPtf ==
    ConnectedBindReturned
    => \A pkt \in Packets :
          LastPort(last.injected_iface) \in Output(LastFlows, LastPort(last.dut_iface), pkt)

(***************************************************************************)
(* SpecRules: the flow rules of the DUT and PTF ports that a connected     *)
(* bind_ovs_ports installs (1178-1261), as the text of the commands.       *)
(* bind_helper is VMTopology.cmd, one `ovs-ofctl add-flow` a rule, or, in  *)
(* batch mode, the lambda that keeps cmd.split()[-1] for the file that     *)
(* one `ovs-ofctl add-flows` reads.  The call is made first without and    *)
(* then with the batch arguments; a flow is what ovs-ofctl reads from the  *)
(* text: the match fields before `action=` and the actions after it.       *)
(***************************************************************************)
\* the command lines of the bind_helper calls (1190-1252), in their order;
\* a line the source continues with a backslash keeps the indentation of
\* its second half inside the string
FlowCmds(br, d, i, v) ==
    << "ovs-ofctl add-flow " \o br \o " table=0,priority=10,tcp,in_port=" \o d \o ",tp_src=179,action=output:" \o v \o "," \o i,
       "ovs-ofctl add-flow " \o br \o " table=0,priority=10,tcp,in_port=" \o d \o ",tp_dst=179,action=output:" \o v \o "," \o i,
       "ovs-ofctl add-flow " \o br \o " table=0,priority=10,tcp,in_port=" \o d \o ",tp_dst=22,action=output:" \o v \o "," \o i,
       "ovs-ofctl add-flow " \o br \o " table=0,priority=10,tcp,in_port=" \o d \o ",tp_src=22,action=output:" \o v \o "," \o i,
       "ovs-ofctl add-flow " \o br \o " table=0,priority=10,tcp6,in_port=" \o d \o ",tp_src=179,action=output:" \o v \o "," \o i,
       "ovs-ofctl add-flow " \o br \o " table=0,priority=10,tcp6,in_port=" \o d \o ",tp_dst=179,action=output:" \o v \o "," \o i,
       "ovs-ofctl add-flow " \o br \o " table=0,priority=10,tcp6,in_port=" \o d \o ",tp_dst=22,action=output:" \o v \o "," \o i,
       "ovs-ofctl add-flow " \o br \o " table=0,priority=10,tcp6,in_port=" \o d \o ",tp_src=22,action=output:" \o v \o "," \o i,
       "ovs-ofctl add-flow " \o br \o " table=0,priority=10,ip,in_port=" \o d \o ",nw_proto=4,action=output:" \o v \o "," \o i,
       "ovs-ofctl add-flow " \o br \o " table=0,priority=8,ip,in_port=" \o d \o ",nw_frag=yes,action=output:" \o v \o "," \o i,
       "ovs-ofctl add-flow " \o br \o " table=0,priority=8,ipv6,in_port=" \o d \o ",nw_frag=yes,action=output:" \o v \o "," \o i,
       "ovs-ofctl add-flow " \o br \o " table=0,priority=8,icmp,in_port=" \o d \o ",action=output:" \o v \o "," \o i,
       "ovs-ofctl add-flow " \o br \o " table=0,priority=8,icmp6,in_port=" \o d \o ",action=output:" \o v \o "," \o i,
       "ovs-ofctl add-flow " \o br \o " table=0,priority=8,udp,in_port=" \o d \o ",udp_src=161,action=output:" \o v \o "," \o i,
       "ovs-ofctl add-flow " \o br \o " table=0,priority=8,udp,in_port=" \o d \o ",udp_src=53,action=output:" \o v,
       "ovs-ofctl add-flow " \o br \o " table=0,priority=8,udp6,in_port=" \o d \o ",udp_src=161,action=output:" \o v \o "," \o i,
       "ovs-ofctl add-flow " \o br \o " table=0,priority=6,udp6,in_port=" \o d \o ",udp_dst=4784,action=output:" \o i,
       "ovs-ofctl add-flow " \o br \o " table=0,priority=5,ip,in_port=" \o d \o ",action=output:" \o i,
       "ovs-ofctl add-flow " \o br \o " table=0,priority=5,ipv6,in_port=" \o d \o ",action=output:" \o v \o "," \o i,
       "ovs-ofctl add-flow " \o br \o " table=0,priority=3,in_port=" \o d \o ",action=output:" \o v \o "," \o i,
       "ovs-ofctl add-flow " \o br \o " table=0,priority=10,ip,in_port=" \o d \o ",nw_proto=89,action=output:" \o v \o "," \o i,
       "ovs-ofctl add-flow " \o br \o " table=0,priority=10,ipv6,in_port=" \o d \o ",nw_proto=89,action=output:" \o v \o "," \o i,
       "ovs-ofctl add-flow " \o br \o " 'table=0,priority=10,udp,in_port=" \o d \o ",                        udp_dst=3784,action=output:" \o v \o "," \o i \o "'",
       "ovs-ofctl add-flow " \o br \o " 'table=0,priority=10,udp6,in_port=" \o d \o ",                        udp_dst=3784,action=output:" \o v \o "," \o i \o "'",
       "ovs-ofctl add-flow " \o br \o " 'table=0,priority=10,udp,in_port=" \o d \o ",                        udp_src=49152,udp_dst=3784,action=output:" \o v \o "," \o i \o "'",
       "ovs-ofctl add-flow " \o br \o " 'table=0,priority=10,udp6,in_port=" \o d \o ",                        udp_src=49152,udp_dst=3784,action=output:" \o v \o "," \o i \o "'",
       "ovs-ofctl add-flow " \o br \o " 'table=0,in_port=" \o i \o ",action=output:" \o d \o "'" >>

\* the positions of s that hold one of the characters cs
Positions(s, cs) == {n \in 1..Len(s) : SubSeq(s, n, n) \in cs}

\* the pieces of s that the positions seps separate, as [from, to] pairs
Pieces(s, seps) ==
    {[from |-> a, to |-> Min({b \in a..Len(s) : b = Len(s) \/ b + 1 \in seps})] :
        a \in {n \in 1..Len(s) \ seps : n = 1 \/ n - 1 \in seps}}

\* the pieces in their order
RECURSIVE InOrder(_)
InOrder(ps) ==
    IF ps = {} THEN << >>
    ELSE LET p == CHOOSE q \in ps : \A r \in ps : q.from <= r.from
         IN <<p>> \o InOrder(ps \ {p})

\* cmd.split()[-1]: the last of the words that blanks separate
split_last(s) ==
    LET ps == InOrder(Pieces(s, Positions(s, {" "})))
    IN SubSeq(s, ps[Len(ps)].from, ps[Len(ps)].to)

\* rule.strip("'")
RECURSIVE strip_quote(_)
strip_quote(s) ==
    IF s # "" /\ SubSeq(s, 1, 1) = "'" THEN strip_quote(SubSeq(s, 2, Len(s)))
    ELSE IF s # "" /\ SubSeq(s, Len(s), Len(s)) = "'" THEN strip_quote(SubSeq(s, 1, Len(s) - 1))
    ELSE s

\* a word without its quote characters
RECURSIVE Unquote(_)
Unquote(w) ==
    LET qs == Positions(w, {"'"})
    IN IF qs = {} THEN w
       ELSE SubSeq(w, 1, Min(qs) - 1) \o Unquote(SubSeq(w, Min(qs) + 1, Len(w)))

\* shlex.split of a line with blanks and single quotes (1768): the words
\* that the blanks outside quotes separate, without the quotes
shlex_split_line(s) ==
    LET quotes == Positions(s, {"'"})
        outside(n) == Cardinality({q \in quotes : q < n}) % 2 = 0
        ps == InOrder(Pieces(s, {n \in Positions(s, {" "}) : outside(n)}))
    IN [n \in DOMAIN ps |-> Unquote(SubSeq(s, ps[n].from, ps[n].to))]

\* the position of the first occurrence of pat in s
Find(s, pat) ==
    Min({n \in 1..Len(s) : n + Len(pat) - 1 <= Len(s) /\ SubSeq(s, n, n + Len(pat) - 1) = pat})

\* the flow ovs-ofctl reads from a flow text: the fields of the match,
\* which commas and blanks separate, and the actions
parse_flow(text) ==
    LET p == Find(text, "action=")
        match == SubSeq(text, 1, p - 1)
    IN [fields |-> {SubSeq(match, q.from, q.to) : q \in Pieces(match, Positions(match, {",", " "}))},
        actions |-> SubSeq(text, p + Len("action="), Len(text))]

\* the OpenFlow numbers of the three ports
PortIds == 1..3
RuleBridge == "br-VM0100-0"

NoRules == [br |-> RuleBridge, d |-> "", i |-> "", v |-> "", phase |-> "cmd", k |-> 0,
            direct |-> {}, invocations |-> 0, all_cmds |-> << >>, file |-> << >>,
            batch |-> {}, batch_invocations |-> 0]

InitRules ==
    /\ \E d \in PortIds :
          \E i \in PortIds \ {d} :
             \E v \in PortIds \ {d, i} :
                fn = [NoRules EXCEPT !.d = FormatInt(d), !.i = FormatInt(i), !.v = FormatInt(v)]
    /\ topo = TopoSingle /\ extra = << >>
    /\ OrchIdle /\ TopoIdle /\ PoolIdle /\ ShellIdle /\ BatchIdle

RuleCmds == FlowCmds(fn.br, fn.d, fn.i, fn.v)

\* bind_helper = VMTopology.cmd: the command is split by shlex and run;
\* ovs-ofctl add-flow <bridge> <flow> installs the flow
DirectAddFlow ==
    /\ fn.phase = "cmd"
    /\ LET argv == shlex_split_line(RuleCmds[fn.k + 1])
       IN fn' = [fn EXCEPT !.k = IF fn.k + 1 = Len(RuleCmds) THEN 0 ELSE fn.k + 1,
                           !.phase = IF fn.k + 1 = Len(RuleCmds) THEN "collect" ELSE "cmd",
                           !.direct = @ \cup {parse_flow(argv[Len(argv)])},
                           !.invocations = @ + 1]
    /\ UNCHANGED <<ovars, tvars, wvars, sh, bt>>

\* batch mode: bind_helper = lambda cmd: all_cmds.append(cmd.split()[-1]) (1181-1183)
BatchCollect ==
    /\ fn.phase = "collect"
    /\ fn' = [fn EXCEPT !.k = fn.k + 1,
                        !.phase = IF fn.k + 1 = Len(RuleCmds) THEN "write" ELSE "collect",
                        !.all_cmds = Append(@, split_last(RuleCmds[fn.k + 1]))]
    /\ UNCHANGED <<ovars, tvars, wvars, sh, bt>>

\* for rule in all_cmds: f.write(rule.strip("'") + "\n") (1257-1259)
WriteRules ==
    /\ fn.phase = "write"
    /\ fn' = [fn EXCEPT !.phase = "fire",
                        !.file = [n \in DOMAIN fn.all_cmds |-> strip_quote(fn.all_cmds[n])]]
    /\ UNCHANGED <<ovars, tvars, wvars, sh, bt>>

\* fire_and_forget("ovs-ofctl add-flows <bridge> <file>") (1261): the
\* process installs the flow of every line
AddFlowsFile ==
    /\ fn.phase = "fire"
    /\ fn' = [fn EXCEPT !.phase = "done",
                        !.batch = {parse_flow(fn.file[n]) : n \in DOMAIN fn.file},
                        !.batch_invocations = @ + 1]
    /\ UNCHANGED <<ovars, tvars, wvars, sh, bt>>

NextRules == DirectAddFlow \/ BatchCollect \/ WriteRules \/ AddFlowsFile

SpecRules == InitRules /\ [][NextRules]_vars

\* C33: for one bridge and its ports, batch mode installs the flows that
\* the one-command-a-rule mode installs, the same fields and the same
\* actions, with one invocation of ovs-ofctl.
C33_BatchInstallsSameRules ==
    fn.phase = "done" => (fn.batch = fn.direct /\ fn.batch_invocations = 1)


(***************************************************************************)
(* SpecLag: the port lookup of bind_ovs_ports (1145-1159) on a bridge      *)
(* whose three ports OVS registers with a lag.  The lag of a port is the   *)
(* number of `ovs-ofctl show` queries, counted from the first one, that do *)
(* not list it yet; a lag of RETRIES or more is a port that is not listed  *)
(* within the retry budget of get_ovs_port_bindings (1842-1861).           *)
(***************************************************************************)
RETRIES == 10

LagPorts == {"dut_iface", "injected_iface", "vm_iface"}

NoLookup == [lag |-> [p \in LagPorts |-> 0], phase |-> "query", queries |-> 0,
             bindings |-> {}, raised |-> "none"]

InitLag ==
    /\ \E lag \in [LagPorts -> 0..RETRIES] : fn = [NoLookup EXCEPT !.lag = lag]
    /\ topo = TopoSingle /\ extra = << >>
    /\ OrchIdle /\ TopoIdle /\ PoolIdle /\ ShellIdle /\ BatchIdle

\* what query number q of `ovs-ofctl show` lists
Listed(lag, q) == {p \in LagPorts : lag[p] < q}

\* one round of the loop of get_ovs_port_bindings(br_name, [dut_iface])
\* (1156, 1846-1859): the result is returned when it holds every interface
\* of vlan_iface; after RETRIES rounds the exception is raised
get_ovs_port_bindings_round(f, vlan_iface) ==
    LET q == f.queries + 1
        res == Listed(f.lag, q)
    IN IF vlan_iface \subseteq res
       THEN [f EXCEPT !.queries = q, !.bindings = res, !.phase = "lookup"]
       ELSE IF q = RETRIES
       THEN [f EXCEPT !.queries = q, !.phase = "done", !.raised = "Exception"]
       ELSE [f EXCEPT !.queries = q]

QueryBindings ==
    /\ fn.phase = "query"
    /\ fn' = get_ovs_port_bindings_round(fn, {"dut_iface"})
    /\ UNCHANGED <<ovars, tvars, wvars, sh, bt>>

\* dut_iface_id = bindings[dut_iface]; injected_iface_id =
\* bindings[injected_iface]; vm_iface_id = bindings[vm_iface] (1157-1159)
LookupPorts ==
    /\ fn.phase = "lookup"
    /\ fn' = [fn EXCEPT !.phase = "done",
                        !.raised = IF LagPorts \subseteq fn.bindings THEN "none" ELSE "KeyError"]
    /\ UNCHANGED <<ovars, tvars, wvars, sh, bt>>

NextLag == QueryBindings \/ LookupPorts

SpecLag == InitLag /\ [][NextLag]_vars

\* C34: get_ovs_port_bindings ends after at most RETRIES queries, and when
\* each of the three ports is listed within the retry budget the lookup of
\* bind_ovs_ports raises nothing.
C34_LagToleratedForAllPorts ==
    /\ fn.queries <= RETRIES
    /\ (fn.phase = "done" /\ \A p \in LagPorts : fn.lag[p] < RETRIES) => fn.raised = "none"


(***************************************************************************)
(* SpecAddr: add_ip_to_docker_if (615-644) and add_ip_to_netns_if          *)
(* (646-667) run, and run again with the same arguments, on the management *)
(* interface of the container or of the namespace, which is there or not.  *)
(***************************************************************************)
AddrHost(fun, present) ==
    [CleanHost EXCEPT
        !.netns = (fun = "add_ip_to_netns_if"),
        !.ifs = IF present
                THEN @ \cup {Intf(MGMT_PORT_NAME, IF fun = "add_ip_to_netns_if" THEN "ns" ELSE "ctn",
                                  NoName, "veth")}
                ELSE @]

NoAddrCall == [fun |-> "none", present |-> FALSE, ipv6 |-> NoIp, gw |-> NoIp, gw_v6 |-> NoIp,
               extra |-> << >>, h |-> CleanHost, calls |-> 0, raised |-> FALSE, first |-> CleanHost]

InitAddr ==
    /\ \E fun \in {"add_ip_to_docker_if", "add_ip_to_netns_if"}, present \in BOOLEAN,
          ipv6 \in {NoIp, ptf_mgmt_ipv6_addr}, gw \in {NoIp, ptf_mgmt_ip_gw},
          gw_v6 \in {NoIp, ptf_mgmt_ipv6_gw}, ex \in {<< >>, <<NoIp>>, <<ExtraIp>>} :
          /\ fun = "add_ip_to_netns_if" => ex = << >>
          /\ fn = [NoAddrCall EXCEPT !.fun = fun, !.present = present, !.ipv6 = ipv6, !.gw = gw,
                                     !.gw_v6 = gw_v6, !.extra = ex,
                                     !.h = AddrHost(fun, present), !.first = AddrHost(fun, present)]
    /\ topo = TopoSingle /\ extra = << >>
    /\ OrchIdle /\ TopoIdle /\ PoolIdle /\ ShellIdle /\ BatchIdle

MaxAddrCalls == 2

AddrCall(f) ==
    LET r == IF f.fun = "add_ip_to_docker_if"
             THEN add_ip_to_docker_if(f.h, PtfPid, MGMT_PORT_NAME, ptf_mgmt_ip_addr, f.ipv6,
                                      f.gw, f.gw_v6, f.extra)
             ELSE add_ip_to_netns_if(f.h, MGMT_PORT_NAME, netns_mgmt_ip_addr, f.ipv6, f.gw, f.gw_v6)
    IN [f EXCEPT !.h = r.h, !.calls = @ + 1, !.raised = ~r.ok,
                 !.first = IF f.calls = 0 THEN r.h ELSE @]

AddIpToDockerIf ==
    /\ fn.fun = "add_ip_to_docker_if" /\ fn.calls < MaxAddrCalls /\ ~fn.raised
    /\ fn' = AddrCall(fn)
    /\ UNCHANGED <<ovars, tvars, wvars, sh, bt>>

AddIpToNetnsIf ==
    /\ fn.fun = "add_ip_to_netns_if" /\ fn.calls < MaxAddrCalls /\ ~fn.raised
    /\ fn' = AddrCall(fn)
    /\ UNCHANGED <<ovars, tvars, wvars, sh, bt>>

NextAddr == AddIpToDockerIf \/ AddIpToNetnsIf

SpecAddr == InitAddr /\ [][NextAddr]_vars

\* C36: addresses and routes are configured only when the interface is
\* there, and a second run with the same addresses, extra addresses and
\* gateways raises nothing and leaves the addresses and the default routes
\* of the first run, one default route for each family at most.
C36_AddressSetupIdempotent ==
    /\ (~fn.present /\ fn.calls > 0) => (fn.h = AddrHost(fn.fun, FALSE) /\ ~fn.raised)
    /\ fn.calls = 2 =>
          /\ ~fn.raised
          /\ fn.h.addrs = fn.first.addrs /\ fn.h.routes = fn.first.routes
          /\ \A v6 \in BOOLEAN : Cardinality({r \in fn.h.routes : r.v6 = v6}) <= 1


(***************************************************************************)
(* The direct VM-to-VM links after a bind and an unbind (SpecOptions).     *)
(***************************************************************************)
\* the link's bridge br_<name> is on the host, as a Linux or an OVS bridge
LinkBridgeExists(h, a) ==
    Has(h, LINK_BRIDGE(a.k), "root") \/ LINK_BRIDGE(a.k) \in DOMAIN h.lbr
       \/ LINK_BRIDGE(a.k) \in DOMAIN h.ovs

\* an endpoint port of the link is attached to the link's bridge
LinkPortAttached(h, a) ==
    \E p \in {OVS_FP_TAP(a.start_vm_offset, a.start_vm_port_idx),
              OVS_FP_TAP(a.end_vm_offset, a.end_vm_port_idx)} :
        \/ LINK_BRIDGE(a.k) \in DOMAIN h.lbr /\ p \in h.lbr[LINK_BRIDGE(a.k)]
        \/ LINK_BRIDGE(a.k) \in DOMAIN h.ovs /\ p \in DOMAIN h.ovs[LINK_BRIDGE(a.k)].ports

UnbindAfterBind ==
    cmd = "unbind" /\ result = "ok" /\ prev.cmd = "bind" /\ prev.result = "ok"

\* C37: after a bind and the unbind that follows it, for every entry of
\* VM_LINKs and OVS_LINKs the bridge br_<name> is gone and neither endpoint
\* port is attached to it.
C37_LinkTeardownMirrorsCreation ==
    UnbindAfterBind =>
        \A a \in Range(net_VM_LINKs(topo)) \cup Range(net_OVS_LINKs(topo)) :
            ~LinkBridgeExists(host, a) /\ ~LinkPortAttached(host, a)


(***************************************************************************)
(* SpecRegistry: setup_netns_source_routing (1454-1510) over the text of   *)
(* the routing-table name registry /etc/iproute2/rt_tables, a sequence of  *)
(* lines <slot> <name>.  The registry is drawn from the files of at most   *)
(* MaxRegLines lines; the namespace holds the interfaces of the            *)
(* active-active host ports, which have the host indices fn.ports.  The    *)
(* namespace is made anew by add_network_namespace between the runs.       *)
(***************************************************************************)
MaxRegLines == 2
MaxRegRuns == 2

OtherTable == <<"other", 0, 0>>
RegSlots == {slot_start_index, slot_start_index + 1, 200}
RegNames == {NETNS_IFACE(0), NETNS_IFACE(1), OtherTable}
RegLine(slot, name) == [slot |-> slot, name |-> name]

RegFiles ==
    {f \in UNION {[1..n -> {RegLine(s, nm) : s \in RegSlots, nm \in RegNames}] : n \in 0..MaxRegLines} :
        \A a \in DOMAIN f : \A b \in DOMAIN f :
            a # b => (f[a].slot # f[b].slot /\ f[a].name # f[b].name)}

\* get_existing_rt_tables (1457-1467): the dict of the lines, slot to name
get_existing_rt_tables(file) ==
    [s \in {file[n].slot : n \in DOMAIN file} |->
        file[CHOOSE n \in DOMAIN file :
                 file[n].slot = s /\ \A m \in DOMAIN file : file[m].slot = s => m <= n].name]

\* ip resolves `table <name>` through the names of the registry
TableKnown(file, rt_name) == \E n \in DOMAIN file : file[n].name = rt_name

NoRouting == [file |-> << >>, file0 |-> << >>, ports |-> << >>, rules |-> {},
              runs |-> 0, raised |-> FALSE]

InitRegistry ==
    /\ \E file \in RegFiles, ports \in {<<0>>, <<1>>, <<0, 1>>} :
          fn = [NoRouting EXCEPT !.file = file, !.file0 = file, !.ports = ports]
    /\ topo = TopoSingle /\ extra = << >>
    /\ OrchIdle /\ TopoIdle /\ PoolIdle /\ ShellIdle /\ BatchIdle

\* one pass of the loop (1478-1510) for the port of host index hi, with
\* the dict rt_tables read before the loop
RoutePort(f, rt_tables, hi) ==
    LET ns_if == NETNS_IFACE(hi)
        rt_slot == slot_start_index + hi
        rt_name == ns_if
        file1 == IF rt_slot \notin DOMAIN rt_tables
                 THEN Append(f.file, RegLine(rt_slot, rt_name)) ELSE f.file
        rule1 == <<"iif", ns_if, rt_name>>
        rule2 == <<"from", ns_if, rt_name>>
    IN IF f.raised THEN f
       ELSE IF rt_slot > MaxRtSlot THEN [f EXCEPT !.raised = TRUE]
       ELSE IF ~TableKnown(file1, rt_name) \/ rule1 \in f.rules \/ rule2 \in f.rules
       THEN [f EXCEPT !.file = file1, !.raised = TRUE]
       ELSE [f EXCEPT !.file = file1, !.rules = @ \cup {rule1, rule2}]

RECURSIVE RoutePorts(_, _, _)
RoutePorts(f, rt_tables, ports) ==
    IF ports = << >> THEN f
    ELSE RoutePorts(RoutePort(f, rt_tables, Head(ports)), rt_tables, Tail(ports))

SetupRouting ==
    /\ fn.runs < MaxRegRuns /\ ~fn.raised
    /\ fn' = RoutePorts([fn EXCEPT !.runs = @ + 1], get_existing_rt_tables(fn.file), fn.ports)
    /\ UNCHANGED <<ovars, tvars, wvars, sh, bt>>

\* add_network_namespace (461-464): the namespace is deleted and added, its
\* rules go with it; the registry is a file of the host and stays
RenewNamespace ==
    /\ fn.runs > 0 /\ ~fn.raised /\ fn.rules # {}
    /\ fn' = [fn EXCEPT !.rules = {}]
    /\ UNCHANGED <<ovars, tvars, wvars, sh, bt>>

NextRegistry == SetupRouting \/ RenewNamespace

SpecRegistry == InitRegistry /\ [][NextRegistry]_vars

LinesOf(file, slot) == Cardinality({n \in DOMAIN file : file[n].slot = slot})

\* C38: after setup_netns_source_routing has succeeded the registry maps,
\* for every active-active host port, slot 100 + host index to the name of
\* the port's namespace interface, whatever the registry held before; and
\* no run appends a line for a slot that has one.
C38_RegistryMapsSlotToInterface ==
    /\ (fn.runs > 0 /\ ~fn.raised) =>
          \A n \in DOMAIN fn.ports :
              LET slot == slot_start_index + fn.ports[n]
              IN /\ slot \in DOMAIN get_existing_rt_tables(fn.file)
                 /\ get_existing_rt_tables(fn.file)[slot] = NETNS_IFACE(fn.ports[n])
    /\ \A s \in RegSlots : LinesOf(fn.file, s) <= 1


(***************************************************************************)
(* The membership of the ports in the OVS bridges (SpecRetopo): the        *)
(* commands of one topology followed by the commands of another one, whose *)
(* front-panel binds find ports on the bridges of the first.               *)
(***************************************************************************)
OvsBridgesOf(h, p) == {b \in DOMAIN h.ovs : p \in DOMAIN h.ovs[b].ports}

LastPorts == {last.dut_iface, last.injected_iface, last.vm_iface}

ForeignNames == {PTF_FP_IFACE(2), PTF_FP_IFACE(3), MGMT_PORT_NAME, BP_PORT_NAME}

Foreign(name) == [Intf(name, "root", NoName, "phys") EXCEPT !.up = TRUE]

RemovalOps == {"remove_injected_fp_ports_from_docker", "remove_host_ports",
               "remove_ptf_mgmt_port", "remove_ptf_backplane_port"}

NoRemoval == [h |-> CleanHost, foreign |-> {}, called |-> {}, raised |-> FALSE]

InitGone ==
    /\ topo \in {TopoSingle, TopoMulti}
    /\ \E names \in SUBSET ForeignNames :
          fn = [NoRemoval EXCEPT !.foreign = {Foreign(n) : n \in names},
                                 !.h = [CleanHost EXCEPT !.ifs = @ \cup {Foreign(n) : n \in names}]]
    /\ extra = << >>
    /\ OrchIdle /\ TopoIdle /\ PoolIdle /\ ShellIdle /\ BatchIdle

\* one of the removal calls of unbind, with self.pid of a container that is
\* not running; an exception ends the invocation
Remove(op) ==
    /\ ~fn.raised /\ op \notin fn.called
    /\ LET pid == get_pid(FALSE)
           r == CASE op = "remove_injected_fp_ports_from_docker" ->
                        remove_injected_fp_ports_from_docker(fn.h, pid, topo)
                  [] op = "remove_host_ports" -> remove_host_ports(fn.h, pid, topo)
                  [] op = "remove_ptf_mgmt_port" -> remove_ptf_mgmt_port(fn.h, pid)
                  [] op = "remove_ptf_backplane_port" -> remove_ptf_backplane_port(fn.h, pid)
       IN fn' = [fn EXCEPT !.h = r.h, !.called = @ \cup {op}, !.raised = ~r.ok]
    /\ UNCHANGED <<ovars, tvars, wvars, sh, bt>>

NextGone == \E op \in RemovalOps : Remove(op)

SpecGone == InitGone /\ [][NextGone]_vars

\* C40: with the PTF container not running, no removal operation brings
\* down, renames or moves an interface of the root namespace that the
\* engine did not create, whatever its name.
C40_ForeignInterfacesUntouched ==
    fn.foreign \subseteq fn.h.ifs

====
